---------------------------- MODULE Spec2Model ----------------------------
(***************************************************************************)
(* Model of the OrbStack connector of pyinfra-orbstack                     *)
(* (src/src/pyinfra_orbstack/connector.py).                                *)
(*                                                                         *)
(* Text is modelled as a sequence of one-character strings, so that the    *)
(* substring tests, the quoting and the splitting the connector relies on  *)
(* are computed character by character.                                    *)
(***************************************************************************)
EXTENDS Integers, Sequences, FiniteSets, TLC

(***************************************************************************)
(* Bounds of the model.                                                    *)
(***************************************************************************)
\* largest max_retries a direct caller of _execute_with_retry passes
MaxRetries == 3
\* number of base_delay values tried (1 .. MaxBaseDelay)
MaxBaseDelay == 2
\* longest command text enumerated over TextAlphabet
MaxLen == 2
\* largest explicit max_retries argument given to run_shell_command
RunMaxRetries == 1

\* the longest machine listing built from ListedMachines
MaxVms == 2

(***************************************************************************)
(* Characters and text helpers.                                            *)
(***************************************************************************)
UpperChars ==
    <<"A", "B", "C", "D", "E", "F", "G", "H", "I", "J", "K", "L", "M",
      "N", "O", "P", "Q", "R", "S", "T", "U", "V", "W", "X", "Y", "Z">>

LowerChars ==
    <<"a", "b", "c", "d", "e", "f", "g", "h", "i", "j", "k", "l", "m",
      "n", "o", "p", "q", "r", "s", "t", "u", "v", "w", "x", "y", "z">>

Digits == {"0", "1", "2", "3", "4", "5", "6", "7", "8", "9"}

\* str.lower() on one character
LowerChar(c) ==
    IF \E i \in 1..26 : UpperChars[i] = c
    THEN LowerChars[CHOOSE i \in 1..26 : UpperChars[i] = c]
    ELSE c

\* str.lower()
StrLower(s) == [i \in 1..Len(s) |-> LowerChar(s[i])]

\* Python's "k in s" on text
Contains(k, s) ==
    \E i \in 0..(Len(s) - Len(k)) : SubSeq(s, i + 1, i + Len(k)) = k

\* step folded over s[lo..hi] from left to right, starting from acc. The
\* range is halved at each level and the left half is evaluated (by the
\* test left = left) before the right half is entered, which keeps TLC's
\* evaluation stack shallow on long texts.
RECURSIVE FoldRange(_, _, _, _, _)
FoldRange(step(_, _), s, lo, hi, acc) ==
    IF lo > hi THEN acc
    ELSE IF lo = hi THEN step(acc, s[lo])
    ELSE LET mid == (lo + hi) \div 2
             left == FoldRange(step, s, lo, mid, acc)
         IN  IF left = left THEN FoldRange(step, s, mid + 1, hi, left)
             ELSE acc

FoldLeft(step(_, _), s, acc) == FoldRange(step, s, 1, Len(s), acc)

\* concatenation of a sequence of texts
Concat(ss) == LET cat(a, b) == a \o b IN FoldLeft(cat, ss, <<>>)

\* sep.join(ss)
Join(sep, ss) ==
    IF ss = <<>> THEN <<>>
    ELSE Concat([i \in 1..(2 * Len(ss) - 1) |->
                    IF i % 2 = 1 THEN ss[(i + 1) \div 2] ELSE sep])

RECURSIVE Pow2(_)
Pow2(n) == IF n <= 0 THEN 1 ELSE 2 * Pow2(n - 1)

(***************************************************************************)
(* Text constants of the program and of the scenarios.                     *)
(***************************************************************************)
S_orbctl == <<"o", "r", "b", "c", "t", "l">>
S_run == <<"r", "u", "n">>
S_create == <<"c", "r", "e", "a", "t", "e">>
S_dash_m == <<"-", "m">>
S_dash_u == <<"-", "u">>
S_dash_w == <<"-", "w">>
S_dash_c == <<"-", "c">>
S_dash_H == <<"-", "H">>
S_dash_n == <<"-", "n">>
S_sh == <<"s", "h">>
S_bash == <<"b", "a", "s", "h">>
S_sudo == <<"s", "u", "d", "o">>
S_test_vm == <<"t", "e", "s", "t", "-", "v", "m">>
S_MaxRetriesExceeded ==
    <<"M", "a", "x", " ", "r", "e", "t", "r", "i", "e", "s", " ",
      "e", "x", "c", "e", "e", "d", "e", "d">>
S_MISSING == <<"M", "I", "S", "S", "I", "N", "G">>
S_MISSING_nl == <<"M", "I", "S", "S", "I", "N", "G", "\n">>
S_out_more == <<"o", "u", "t", "\n", "m", "o", "r", "e", "\n">>
S_warn == <<"w", "a", "r", "n">>
S_command_not_found ==
    <<"c", "o", "m", "m", "a", "n", "d", " ", "n", "o", "t", " ",
      "f", "o", "u", "n", "d">>
S_Network_Timeout ==
    <<"N", "e", "t", "w", "o", "r", "k", " ", "T", "i", "m", "e", "o", "u", "t">>
S_boom == <<"b", "o", "o", "m">>
S_ubuntu == <<"u", "b", "u", "n", "t", "u">>
S_workdir == <<"/", "w">>
S_postgres == <<"p", "o", "s", "t", "g", "r", "e", "s">>
S_apt_get == <<"a", "p", "t", "-", "g", "e", "t">>
S_update == <<"u", "p", "d", "a", "t", "e">>
S_echo == <<"e", "c", "h", "o">>
S_its == <<"i", "t", "'", "s">>
S_apt_get_update ==
    <<"a", "p", "t", "-", "g", "e", "t", " ", "u", "p", "d", "a", "t", "e">>
S_pipe == <<"e", "c", "h", "o", " ", "t", "e", "s", "t", " ", "|", " ",
            "g", "r", "e", "p", " ", "t", "e", "s", "t">>
S_negation ==
    <<"!", " ", "t", "e", "s", "t", " ", "-", "e", " ", "/", "x", " ",
      "&", "&", " ", "e", "c", "h", "o", " ", "M", "I", "S", "S", "I", "N", "G">>
S_or == <<"l", "s", " ", "|", "|", " ", "t", "r", "u", "e">>
S_redirect == <<"l", "s", " ", ">", " ", "/", "x">>
\* a network command written in capitals
S_CURL == <<"C", "U", "R", "L", " ", "-", "s", " ", "u">>
S_VMNameNotFound ==
    <<"V", "M", " ", "n", "a", "m", "e", " ", "n", "o", "t", " ",
      "f", "o", "u", "n", "d", " ", "i", "n", " ", "h", "o", "s", "t", " ",
      "d", "a", "t", "a">>
S_CommandTimedOut ==
    <<"C", "o", "m", "m", "a", "n", "d", " ", "t", "i", "m", "e", "d", " ",
      "o", "u", "t">>
S_UnexpectedError ==
    <<"U", "n", "e", "x", "p", "e", "c", "t", "e", "d", " ",
      "e", "r", "r", "o", "r", ":", " ">>
S_NoClosingQuotation ==
    <<"N", "o", " ", "c", "l", "o", "s", "i", "n", "g", " ",
      "q", "u", "o", "t", "a", "t", "i", "o", "n">>

(***************************************************************************)
(* shlex.quote and shlex.split of the Python standard library, which the   *)
(* plain-text path of run_shell_command goes through.                      *)
(***************************************************************************)
SQ == "'"
DQ == "\""
BSL == "\\"

Whitespace == {" ", "\t", "\r", "\n"}

\* the characters shlex.quote leaves alone: [\w@%+=:,./-] (ASCII)
SafeChars ==
    {UpperChars[i] : i \in 1..26} \cup {LowerChars[i] : i \in 1..26}
        \cup Digits \cup {"_", "@", "%", "+", "=", ":", ",", ".", "/", "-"}

\* s.replace("'", "'\"'\"'")
EscapeSingleQuotes(s) ==
    Concat([i \in 1..Len(s) |->
               IF s[i] = SQ THEN <<SQ, DQ, SQ, DQ, SQ>> ELSE <<s[i]>>])

\* shlex.quote
ShlexQuote(s) ==
    IF s = <<>> THEN <<SQ, SQ>>
    ELSE IF \A i \in 1..Len(s) : s[i] \in SafeChars THEN s
    ELSE <<SQ>> \o EscapeSingleQuotes(s) \o <<SQ>>

\* The lexer state of shlex.shlex(posix=True, whitespace_split=True):
\* st is "ws" between tokens, "word" inside a token, "sq"/"dq" inside
\* quotes, "esc" after a backslash; est is the state to return to after an
\* escape, tok the token being built, quoted whether it had a quoted part,
\* out the tokens emitted so far.
ShlexStart ==
    [st |-> "ws", est |-> "word", tok |-> <<>>, quoted |-> FALSE, out |-> <<>>]

\* read_token on one more character c
ShlexStep(x, c) ==
    CASE x.st = "ws" ->
           IF c \in Whitespace THEN x
           ELSE IF c = BSL THEN [x EXCEPT !.st = "esc", !.est = "word"]
           ELSE IF c = SQ THEN [x EXCEPT !.st = "sq", !.quoted = TRUE]
           ELSE IF c = DQ THEN [x EXCEPT !.st = "dq", !.quoted = TRUE]
           ELSE [x EXCEPT !.st = "word", !.tok = <<c>>]
      [] x.st = "sq" ->
           IF c = SQ THEN [x EXCEPT !.st = "word"]
           ELSE [x EXCEPT !.tok = Append(x.tok, c)]
      [] x.st = "dq" ->
           IF c = DQ THEN [x EXCEPT !.st = "word"]
           ELSE IF c = BSL THEN [x EXCEPT !.st = "esc", !.est = "dq"]
           ELSE [x EXCEPT !.tok = Append(x.tok, c)]
      [] x.st = "esc" ->
           IF x.est = "dq" /\ c # BSL /\ c # DQ
           THEN [x EXCEPT !.st = x.est, !.tok = x.tok \o <<BSL, c>>]
           ELSE [x EXCEPT !.st = x.est, !.tok = Append(x.tok, c)]
      [] OTHER ->  \* x.st = "word"
           IF c \in Whitespace
           THEN [x EXCEPT !.st = "ws", !.tok = <<>>, !.quoted = FALSE,
                          !.out = IF x.tok # <<>> \/ x.quoted
                                  THEN Append(x.out, x.tok) ELSE x.out]
           ELSE IF c = SQ THEN [x EXCEPT !.st = "sq", !.quoted = TRUE]
           ELSE IF c = DQ THEN [x EXCEPT !.st = "dq", !.quoted = TRUE]
           ELSE IF c = BSL THEN [x EXCEPT !.st = "esc", !.est = "word"]
           ELSE [x EXCEPT !.tok = Append(x.tok, c)]

\* read_token at the end of the input: the last token is emitted, or
\* ValueError is raised inside quotes and after a backslash (ok = FALSE)
ShlexEnd(x) ==
    CASE x.st = "ws" -> [ok |-> TRUE, tokens |-> x.out]
      [] x.st = "word" ->
           [ok |-> TRUE,
            tokens |-> IF x.tok # <<>> \/ x.quoted THEN Append(x.out, x.tok)
                       ELSE x.out]
      [] OTHER -> [ok |-> FALSE, tokens |-> <<>>]

\* a plausible slip: the command line is split at blanks (str.split)
ShlexSplitNaive(s) ==
    LET step(x, c) ==
            IF c \in Whitespace
            THEN [tok |-> <<>>,
                  out |-> IF x.tok # <<>> THEN Append(x.out, x.tok) ELSE x.out]
            ELSE [x EXCEPT !.tok = Append(x.tok, c)]
        end == FoldLeft(step, s, [tok |-> <<>>, out |-> <<>>])
    IN  [ok |-> TRUE,
         tokens |-> IF end.tok # <<>> THEN Append(end.out, end.tok)
                    ELSE end.out]

\* shlex.split(s): ok is FALSE when it raises ValueError
ShlexSplit(s) == ShlexEnd(FoldLeft(ShlexStep, s, ShlexStart))

(***************************************************************************)
(* The commands run_shell_command accepts.                                 *)
(*   shape "str"  : a Python str, bits = <<text>>                          *)
(*   shape "sc"   : a pyinfra StringCommand with these bits                *)
(*   shape "list" : a Python list of str                                   *)
(***************************************************************************)
StrCommand(t) == [shape |-> "str", bits |-> <<t>>]

StringCommand(bits) == [shape |-> "sc", bits |-> bits]

ListCommand(items) == [shape |-> "list", bits |-> items]

\* repr() of a str, for the characters the model uses
PyReprStr(s) ==
    LET chars == {s[i] : i \in 1..Len(s)}
        q == IF SQ \in chars /\ DQ \notin chars THEN DQ ELSE SQ
        esc(c) == IF c = q \/ c = BSL THEN <<BSL, c>>
                  ELSE IF c = "\n" THEN <<BSL, "n">>
                  ELSE IF c = "\t" THEN <<BSL, "t">>
                  ELSE IF c = "\r" THEN <<BSL, "r">>
                  ELSE <<c>>
    IN  <<q>> \o Concat([i \in 1..Len(s) |-> esc(s[i])]) \o <<q>>

\* repr() of a list of str
PyReprList(items) ==
    <<"[">> \o Join(<<",", " ">>, [i \in 1..Len(items) |-> PyReprStr(items[i])])
        \o <<"]">>

\* the text of a command: str(command), and what pyinfra's StringCommand
\* makes of it as a bit ("{0}".format(bit), or the raw value of a nested
\* StringCommand, whose bits are joined by blanks)
CommandText(command) ==
    CASE command.shape = "str" -> command.bits[1]
      [] command.shape = "sc" -> Join(<<" ">>, command.bits)
      [] OTHER -> PyReprList(command.bits)

\* hasattr(command, "bits") and len(command.bits) >= 2
\*     and str(command.bits[0]) in ("sh", "bash")
IsPrewrapped(command) ==
    /\ command.shape = "sc"
    /\ Len(command.bits) >= 2
    /\ command.bits[1] \in {S_sh, S_bash}

\* a plausible slip: sudo is appended after the shell invocation
PrewrappedArgsSudoLast(bits, sudo, sudo_user) ==
    IF sudo
    THEN IF sudo_user # <<>>
         THEN bits \o <<S_sudo, S_dash_H, S_dash_u, sudo_user>>
         ELSE bits \o <<S_sudo, S_dash_H>>
    ELSE bits

\* the pre-wrapped branch: the bits, with the sudo tokens put in front
PrewrappedArgs(bits, sudo, sudo_user) ==
    IF sudo
    THEN IF sudo_user # <<>>
         THEN <<S_sudo, S_dash_H, S_dash_u, sudo_user>> \o bits
         ELSE <<S_sudo, S_dash_H>> \o bits
    ELSE bits

\* pyinfra's make_unix_command_for_host(state, host, command, _sudo=...,
\* _sudo_user=...).get_raw_value(), with no sudo password and the default
\* shell: "sudo -H -n [-u <user>] sh -c <shlex.quote(text)>"
MakeUnixCommand(command, sudo, sudo_user) ==
    LET sudoBits == IF sudo
                    THEN <<S_sudo, S_dash_H, S_dash_n>>
                             \o (IF sudo_user # <<>>
                                 THEN <<S_dash_u, sudo_user>> ELSE <<>>)
                    ELSE <<>>
    IN  Join(<<" ">>,
             sudoBits \o <<S_sh, S_dash_c, ShlexQuote(CommandText(command))>>)

\* a plausible slip: on the plain-text branch sudo is written into the text
\* that sh -c runs instead of standing in front of the shell
CommandArgsSudoInText(command, args) ==
    IF IsPrewrapped(command)
    THEN [ok |-> TRUE,
          tokens |-> PrewrappedArgs(command.bits, args.sudo, args.sudo_user)]
    ELSE IF args.sudo
    THEN ShlexSplit(MakeUnixCommand(
             StrCommand(Join(<<" ">>, <<S_sudo, S_dash_H, CommandText(command)>>)),
             FALSE, <<>>))
    ELSE ShlexSplit(MakeUnixCommand(command, args.sudo, args.sudo_user))

\* command_args of run_shell_command; ok is FALSE when shlex.split raises
CommandArgs(command, args) ==
    IF IsPrewrapped(command)
    THEN [ok |-> TRUE,
          tokens |-> PrewrappedArgs(command.bits, args.sudo, args.sudo_user)]
    ELSE ShlexSplit(MakeUnixCommand(command, args.sudo, args.sudo_user))

\* a plausible slip: the flags are added after the command tokens
BuildCmdFlagsLast(vm, args, command_args) ==
    <<S_orbctl, S_run, S_dash_m, vm>>
        \o command_args
        \o (IF args.user # <<>> THEN <<S_dash_u, args.user>> ELSE <<>>)
        \o (IF args.workdir # <<>> THEN <<S_dash_w, args.workdir>> ELSE <<>>)

\* cmd = ["orbctl", "run", "-m", vm_name] (+ -u user) (+ -w workdir)
\*       + command_args
BuildCmd(vm, args, command_args) ==
    <<S_orbctl, S_run, S_dash_m, vm>>
        \o (IF args.user # <<>> THEN <<S_dash_u, args.user>> ELSE <<>>)
        \o (IF args.workdir # <<>> THEN <<S_dash_w, args.workdir>> ELSE <<>>)
        \o command_args

NetworkOperationKeywords ==
    { <<"c", "r", "e", "a", "t", "e">>,
      <<"d", "o", "w", "n", "l", "o", "a", "d">>,
      <<"p", "u", "l", "l">>,
      <<"f", "e", "t", "c", "h">>,
      <<"w", "g", "e", "t">>,
      <<"c", "u", "r", "l">>,
      <<"a", "p", "t">>,
      <<"y", "u", "m">>,
      <<"d", "n", "f">> }

\* a plausible slip: the keywords are looked for in the text as written
IsNetworkOperationCaseSensitive(command) ==
    \E k \in NetworkOperationKeywords : Contains(k, CommandText(command))

\* command_str = str(command).lower()
\* is_network_operation = any(keyword in command_str for keyword in [...])
IsNetworkOperation(command) ==
    \E k \in NetworkOperationKeywords :
        Contains(k, StrLower(CommandText(command)))

\* str.splitlines(), for the line ends \n, \r and \r\n: cur is the line
\* being read, cr whether the last character was \r
SplitLines(s) ==
    LET step(x, c) ==
            IF c = "\n"
            THEN IF x.cr THEN [x EXCEPT !.cr = FALSE]
                 ELSE [x EXCEPT !.cur = <<>>, !.out = Append(x.out, x.cur)]
            ELSE IF c = "\r"
            THEN [cur |-> <<>>, cr |-> TRUE, out |-> Append(x.out, x.cur)]
            ELSE [x EXCEPT !.cur = Append(x.cur, c), !.cr = FALSE]
        end == FoldLeft(step, s, [cur |-> <<>>, cr |-> FALSE, out |-> <<>>])
    IN  IF end.cur # <<>> THEN Append(end.out, end.cur) ELSE end.out

OutputLine(stream, line) == [stream |-> stream, line |-> line]

\* a plausible slip: only stderr is turned into output lines
OutputLinesStderrOnly(result) ==
    LET errs == IF result.stderr # <<>> THEN SplitLines(result.stderr) ELSE <<>>
    IN  [i \in 1..Len(errs) |-> OutputLine("stderr", errs[i])]

\* a plausible slip: the stderr lines are put before the stdout lines
OutputLinesStderrFirst(result) ==
    LET outs == IF result.stdout # <<>> THEN SplitLines(result.stdout) ELSE <<>>
        errs == IF result.stderr # <<>> THEN SplitLines(result.stderr) ELSE <<>>
    IN  [i \in 1..Len(errs) |-> OutputLine("stderr", errs[i])]
            \o [i \in 1..Len(outs) |-> OutputLine("stdout", outs[i])]

\* the CommandOutput built from a CompletedProcess
OutputLines(result) ==
    LET outs == IF result.stdout # <<>> THEN SplitLines(result.stdout) ELSE <<>>
        errs == IF result.stderr # <<>> THEN SplitLines(result.stderr) ELSE <<>>
    IN  [i \in 1..Len(outs) |-> OutputLine("stdout", outs[i])]
            \o [i \in 1..Len(errs) |-> OutputLine("stderr", errs[i])]

\* default of arguments.get("max_retries", 3)
DefaultMaxRetries == 3

\* default of the parameter base_delay of _execute_with_retry
DefaultBaseDelay == 2

(***************************************************************************)
(* subprocess.run: the outcomes of one process attempt.                    *)
(*   completed : the process ran and exited with returncode                *)
(*   timeout   : subprocess.TimeoutExpired was raised                      *)
(*   error     : another Exception was raised (its text is in msg)         *)
(***************************************************************************)
Completed(rc, out, err) ==
    [kind |-> "completed", returncode |-> rc, stdout |-> out, stderr |-> err,
     msg |-> <<>>]

TimeoutExpired ==
    [kind |-> "timeout", returncode |-> 0, stdout |-> <<>>, stderr |-> <<>>,
     msg |-> <<>>]

RaisedError(m) ==
    [kind |-> "error", returncode |-> 0, stdout |-> <<>>, stderr |-> <<>>,
     msg |-> m]

NoOutcome ==
    [kind |-> "none", returncode |-> 0, stdout |-> <<>>, stderr |-> <<>>,
     msg |-> <<>>]

\* what the external process may do on one attempt
ProcOutcomes ==
    { Completed(0, S_MISSING_nl, <<>>),
      Completed(0, S_out_more, S_warn),
      Completed(1, <<>>, S_command_not_found),
      Completed(1, <<>>, S_Network_Timeout),
      TimeoutExpired,
      RaisedError(S_boom) }

(***************************************************************************)
(* Texts of the machine listing, of connect and of the file transfers.     *)
(***************************************************************************)
S_list == <<"l", "i", "s", "t">>
S_dash_f == <<"-", "f">>
S_json == <<"j", "s", "o", "n">>
S_info == <<"i", "n", "f", "o">>
S_start == <<"s", "t", "a", "r", "t">>
S_push == <<"p", "u", "s", "h">>
S_pull == <<"p", "u", "l", "l">>
S_running == <<"r", "u", "n", "n", "i", "n", "g">>
S_stopped == <<"s", "t", "o", "p", "p", "e", "d">>
S_unknown == <<"u", "n", "k", "n", "o", "w", "n">>
S_starting == <<"s", "t", "a", "r", "t", "i", "n", "g">>
S_arm64 == <<"a", "r", "m", "6", "4">>
S_amd64 == <<"a", "m", "d", "6", "4">>
S_riscv64 == <<"r", "i", "s", "c", "v", "6", "4">>
S_orbstack == <<"o", "r", "b", "s", "t", "a", "c", "k">>
S_orbstack_ == <<"o", "r", "b", "s", "t", "a", "c", "k", "_">>
S_orbstack_running ==
    <<"o", "r", "b", "s", "t", "a", "c", "k", "_", "r", "u", "n", "n", "i", "n", "g">>
S_orbstack_stopped ==
    <<"o", "r", "b", "s", "t", "a", "c", "k", "_", "s", "t", "o", "p", "p", "e", "d">>
S_orbstack_arm64 ==
    <<"o", "r", "b", "s", "t", "a", "c", "k", "_", "a", "r", "m", "6", "4">>
S_orbstack_amd64 ==
    <<"o", "r", "b", "s", "t", "a", "c", "k", "_", "a", "m", "d", "6", "4">>
S_web == <<"w", "e", "b">>
S_db == <<"d", "b">>
S_vm_id == <<"0", "1", "H">>
S_version == <<"2", "2", ".", "0", "4">>
S_not_json == <<"n", "o", "t", " ", "j", "s", "o", "n">>
S_mv == <<"m", "v">>
S_cp == <<"c", "p">>
S_rm == <<"r", "m">>
S_chmod == <<"c", "h", "m", "o", "d">>
S_644 == <<"6", "4", "4">>
S_temp_prefix ==
    <<"/", "t", "m", "p", "/", "p", "y", "i", "n", "f", "r", "a", "_", "o", "r", "b", "s", "t", "a", "c", "k", "_">>
S_local == <<"/", "l", "/", "f", ".", "t", "x", "t">>
S_download == <<"/", "l", "/", "g", ".", "t", "x", "t">>

S_remote_plain == <<"/", "e", "t", "c", "/", "m", "o", "t", "d">>
S_remote_blank ==
    <<"/", "s", "r", "v", "/", "m", "y", " ", "f", "i", "l", "e">>
S_suffix_a == <<"1", "f">>
S_suffix_b == <<"a", "0">>

(***************************************************************************)
(* JSON values, as json.loads returns them.                                *)
(*   null, a str, a number, a list of values, or a dict whose fields is a  *)
(*   function from its keys to values                                      *)
(***************************************************************************)
JNull == [t |-> "null"]

JStr(s) == [t |-> "str", s |-> s]

JNum(n) == [t |-> "num", n |-> n]

JList(items) == [t |-> "list", items |-> items]

JDict(fields) == [t |-> "dict", fields |-> fields]

\* the dict {}
JEmpty == JDict([k \in {} |-> JNull])

\* the stdout of a process: a text json.loads rejects, or the text of a
\* JSON value
Unparsable(text) == [parses |-> FALSE, text |-> text, value |-> JNull]

Document(value) == [parses |-> TRUE, text |-> <<>>, value |-> value]

\* json.loads(stdout): ok is FALSE when it raises json.JSONDecodeError
JsonLoads(stdout) == [ok |-> stdout.parses, value |-> stdout.value]

\* v.get(key, default): ok is FALSE when v has no method get, which raises
\* AttributeError
PyGet(v, key, default) ==
    IF v.t # "dict" THEN [ok |-> FALSE, value |-> JNull]
    ELSE IF key \in DOMAIN v.fields THEN [ok |-> TRUE, value |-> v.fields[key]]
    ELSE [ok |-> TRUE, value |-> default]

\* a plausible slip: v.get(key).get(inner, default), without the {} that
\* stands in for a missing key
PyGetNestedNoDefault(v, key, inner, default) ==
    LET outer == PyGet(v, key, JNull)
    IN  IF ~outer.ok THEN outer ELSE PyGet(outer.value, inner, default)

\* v.get(key, {}).get(inner, default)
PyGetNested(v, key, inner, default) ==
    LET outer == PyGet(v, key, JEmpty)
    IN  IF ~outer.ok THEN outer ELSE PyGet(outer.value, inner, default)

\* the truth value of v in "if v"
Truthy(v) ==
    CASE v.t = "null" -> FALSE
      [] v.t = "str" -> v.s # <<>>
      [] v.t = "num" -> v.n # 0
      [] v.t = "list" -> v.items # <<>>
      [] OTHER -> DOMAIN v.fields # {}

\* the keys of a dict as str values, in some order (a key is kept whole,
\* its characters are never looked at)
RECURSIVE KeySeq(_)
KeySeq(keys) ==
    IF keys = {} THEN <<>>
    ELSE LET k == CHOOSE x \in keys : TRUE
         IN  <<JStr(<<k>>)>> \o KeySeq(keys \ {k})

\* what "for x in v" iterates over: ok is FALSE when v is not iterable,
\* which raises TypeError; a str gives its characters, a dict its keys
PyIter(v) ==
    CASE v.t = "list" -> [ok |-> TRUE, items |-> v.items]
      [] v.t = "str" ->
           [ok |-> TRUE, items |-> [i \in 1..Len(v.s) |-> JStr(<<v.s[i]>>)]]
      [] v.t = "dict" -> [ok |-> TRUE, items |-> KeySeq(DOMAIN v.fields)]
      [] OTHER -> [ok |-> FALSE, items |-> <<>>]

(***************************************************************************)
(* _execute_with_retry                                                     *)
(***************************************************************************)
NetworkErrorKeywords ==
    { <<"t", "i", "m", "e", "o", "u", "t">>,
      <<"c", "o", "n", "n", "e", "c", "t", "i", "o", "n">>,
      <<"n", "e", "t", "w", "o", "r", "k">>,
      <<"t", "l", "s">>,
      <<"h", "a", "n", "d", "s", "h", "a", "k", "e">>,
      <<"d", "o", "w", "n", "l", "o", "a", "d">>,
      <<"c", "d", "n">>,
      <<"h", "t", "t", "p">>,
      <<"h", "t", "t", "p", "s">>,
      <<"t", "c", "p">>,
      <<"d", "n", "s">>,
      <<"m", "i", "s", "s", "i", "n", "g", " ", "i", "p", " ",
        "a", "d", "d", "r", "e", "s", "s">>,
      <<"d", "i", "d", "n", "'", "t", " ", "s", "t", "a", "r", "t">>,
      <<"s", "e", "t", "u", "p">>,
      <<"m", "a", "c", "h", "i", "n", "e">> }

\* error_msg = result.stderr.lower() if result.stderr else ""
\* is_network_error = any(keyword in error_msg for keyword in [...])
IsNetworkError(stderr) ==
    LET error_msg == IF stderr # <<>> THEN StrLower(stderr) ELSE <<>>
    IN  \E k \in NetworkErrorKeywords : Contains(k, error_msg)

\* cmd_timeout = timeout or (180 if is_network_operation else 60);
\* None is modelled as 0, which "or" treats alike
ResolveTimeout(t, isNet) == IF t # 0 THEN t ELSE (IF isNet THEN 180 ELSE 60)

\* a plausible slip: a backoff that grows by one base delay per attempt
DelayLinear(baseDelay, k) == baseDelay * (k + 1)

\* delay = base_delay * (2**attempt)
Delay(baseDelay, k) == baseDelay * Pow2(k)

\* a plausible slip: a failed result is retried only when both tests hold
RetryFailedResultBoth(o, isNet, k, maxR) ==
    (IsNetworkError(o.stderr) /\ isNet) /\ k < maxR

\* a plausible slip: every failed result is retried while attempts remain
RetryFailedResultAlways(o, isNet, k, maxR) == k < maxR

\* (is_network_error or is_network_operation) and attempt < max_retries
RetryFailedResult(o, isNet, k, maxR) ==
    (IsNetworkError(o.stderr) \/ isNet) /\ k < maxR

\* a plausible slip: the last raising attempt is swallowed into one more retry
RetryRaisedOffByOne(k, maxR) == k < maxR + 1

\* except ...: if attempt < max_retries: sleep and continue, else: raise e
RetryRaised(k, maxR) == k < maxR

\* a plausible slip: the exit code is not looked at before the retry test
AttemptVerdictNoShortCircuit(o, isNet, k, maxR) ==
    IF o.kind = "completed"
    THEN IF RetryFailedResult(o, isNet, k, maxR) THEN "sleep" ELSE "return"
    ELSE IF RetryRaised(k, maxR) THEN "sleep" ELSE "raise"

\* the body of one loop iteration, after subprocess.run produced outcome o:
\* "return" the result, "sleep" and continue, or "raise" the exception
AttemptVerdict(o, isNet, k, maxR) ==
    IF o.kind = "completed"
    THEN IF o.returncode = 0 THEN "return"
         ELSE IF RetryFailedResult(o, isNet, k, maxR) THEN "sleep"
         ELSE "return"
    ELSE IF RetryRaised(k, maxR) THEN "sleep" ELSE "raise"

VARIABLES
    caller,                 \* who called _execute_with_retry
    cmd,                    \* its argument cmd (the argv)
    max_retries,
    base_delay,
    timeout,
    is_network_operation,
    attempt,                \* the loop variable
    epc,                    \* position in _execute_with_retry
    cmd_timeout,            \* timeout of the latest subprocess.run
    hist,                   \* outcomes of the process attempts so far
    sleeps,                 \* delays slept so far
    eret,                   \* how the call ended, and with what
    procs,                  \* argv of every subprocess.run made so far
    rcaller,                \* who called run_shell_command
    rpc,                    \* position in run_shell_command
    command,                \* its argument command
    arguments,              \* its keyword arguments
    vm_name,                \* host.data.get("vm_name"), <<>> when absent
    rret                    \* its return value (success, CommandOutput)

execVars ==
    <<caller, cmd, max_retries, base_delay, timeout, is_network_operation,
      attempt, epc, cmd_timeout, hist, sleeps, eret, procs>>

rscVars == <<rcaller, rpc, command, arguments, vm_name, rret>>

VARIABLES
    cpc,                    \* position in connect
    cvm,                    \* host.data.get("vm_name") as connect reads it
    cret,                   \* how connect ended, and with what
    cresult,                \* what its latest subprocess.run did
    fpc,                    \* position in put_file / get_file
    fop,                    \* "put" or "get"
    fvm,                    \* host.data.get("vm_name") as the transfer reads it
    fargs,                  \* sudo, sudo_user, mode
    local_file,             \* filename_or_io
    remote_filename,
    temp_remote,            \* the staging path, <<>> before it is generated
    fret,                   \* how the transfer ended, and with what
    steps,                  \* the invocations the transfer made itself
    dpc,                    \* position in make_names_data
    hostname,               \* its argument, <<>> for None
    vms,                    \* json.loads(result.stdout)
    di,                     \* number of elements of vms consumed so far
    yielded,                \* the (name, data, groups) tuples yielded so far
    dret,                   \* how the generator ended
    dresult,                \* what its subprocess.run did
    xf,                     \* the transfers under way on one machine
    machine,                \* the files of that machine
    hostfs                  \* the local files

connVars == <<cpc, cvm, cret, cresult>>

fileVars ==
    <<fpc, fop, fvm, fargs, local_file, remote_filename, temp_remote, fret,
      steps>>

discVars == <<dpc, hostname, vms, di, yielded, dret, dresult>>

pairVars == <<xf, machine, hostfs>>

hostVars == <<connVars, fileVars, discVars, pairVars>>

\* no call of connect, put_file, get_file or make_names_data is under way
Quiet == cpc = "idle" /\ fpc = "idle" /\ dpc = "idle"

NoArguments ==
    [sudo |-> FALSE, sudo_user |-> <<>>, user |-> <<>>, workdir |-> <<>>,
     max_retries |-> <<>>, timeout |-> 0]

RscInit ==
    /\ rcaller = "none"
    /\ rpc = "idle"
    /\ command = StrCommand(<<>>)
    /\ arguments = NoArguments
    /\ vm_name = <<>>
    /\ rret = [success |-> FALSE, output |-> <<>>]

ExecInit ==
    /\ caller = "none"
    /\ cmd = <<>>
    /\ max_retries = 0
    /\ base_delay = 0
    /\ timeout = 0
    /\ is_network_operation = FALSE
    /\ attempt = 0
    /\ epc = "idle"
    /\ cmd_timeout = 0
    /\ hist = <<>>
    /\ sleeps = <<>>
    /\ eret = [how |-> "none", value |-> NoOutcome]
    /\ procs = <<>>

\* entry of _execute_with_retry: bind the arguments, start the for loop
ExecEnter(who, c, maxR, baseDelay, t, isNet) ==
    /\ caller' = who
    /\ cmd' = c
    /\ max_retries' = maxR
    /\ base_delay' = baseDelay
    /\ timeout' = t
    /\ is_network_operation' = isNet
    /\ attempt' = 0
    /\ epc' = "loop"
    /\ cmd_timeout' = 0
    /\ hist' = <<>>
    /\ sleeps' = <<>>
    /\ eret' = [how |-> "none", value |-> NoOutcome]
    /\ procs' = procs

\* a plausible slip: a loop whose body runs before the bound is looked at
ExecAttemptAtLeastOnce ==
    /\ epc = "loop"
    /\ attempt = 0 \/ attempt < max_retries + 1
    /\ \E o \in ProcOutcomes :
         LET v == AttemptVerdict(o, is_network_operation, attempt, max_retries)
         IN  /\ cmd_timeout' = ResolveTimeout(timeout, is_network_operation)
             /\ hist' = Append(hist, o)
             /\ procs' = Append(procs, cmd)
             /\ epc' = CASE v = "return" -> "returned"
                         [] v = "raise" -> "raised"
                         [] OTHER -> "sleep"
             /\ eret' = CASE v = "return" -> [how |-> "returned", value |-> o]
                          [] v = "raise" -> [how |-> "raised", value |-> o]
                          [] OTHER -> eret
    /\ UNCHANGED <<caller, cmd, max_retries, base_delay, timeout,
                   is_network_operation, attempt, sleeps>>
    /\ UNCHANGED rscVars
    /\ UNCHANGED hostVars

\* one iteration of "for attempt in range(max_retries + 1)" up to its
\* return, raise or the decision to sleep
ExecAttempt ==
    /\ epc = "loop"
    /\ attempt < max_retries + 1
    /\ \E o \in ProcOutcomes :
         LET v == AttemptVerdict(o, is_network_operation, attempt, max_retries)
         IN  /\ cmd_timeout' = ResolveTimeout(timeout, is_network_operation)
             /\ hist' = Append(hist, o)
             /\ procs' = Append(procs, cmd)
             /\ epc' = CASE v = "return" -> "returned"
                         [] v = "raise" -> "raised"
                         [] OTHER -> "sleep"
             /\ eret' = CASE v = "return" -> [how |-> "returned", value |-> o]
                          [] v = "raise" -> [how |-> "raised", value |-> o]
                          [] OTHER -> eret
    /\ UNCHANGED <<caller, cmd, max_retries, base_delay, timeout,
                   is_network_operation, attempt, sleeps>>
    /\ UNCHANGED rscVars
    /\ UNCHANGED hostVars

\* time.sleep(delay); continue
ExecSleep ==
    /\ epc = "sleep"
    /\ sleeps' = Append(sleeps, Delay(base_delay, attempt))
    /\ attempt' = attempt + 1
    /\ epc' = "loop"
    /\ UNCHANGED <<caller, cmd, max_retries, base_delay, timeout,
                   is_network_operation, cmd_timeout, hist, eret, procs>>
    /\ UNCHANGED rscVars
    /\ UNCHANGED hostVars

\* the loop ends without a return: the statement after the loop
ExecExhausted ==
    /\ epc = "loop"
    /\ ~(attempt < max_retries + 1)
    /\ epc' = "returned"
    /\ eret' = [how |-> "returned",
                value |-> Completed(1, <<>>, S_MaxRetriesExceeded)]
    /\ UNCHANGED <<caller, cmd, max_retries, base_delay, timeout,
                   is_network_operation, attempt, cmd_timeout, hist, sleeps,
                   procs>>
    /\ UNCHANGED rscVars
    /\ UNCHANGED hostVars

\* a direct call of _execute_with_retry, as the unit tests make it
ExecCall ==
    /\ epc = "idle"
    /\ rpc = "idle"
    /\ Quiet
    /\ \E maxR \in (-1)..MaxRetries, bd \in 1..MaxBaseDelay,
          t \in {0, 30}, isNet \in BOOLEAN :
         ExecEnter("direct", <<S_orbctl, S_create, S_test_vm>>,
                   maxR, bd, t, isNet)
    /\ UNCHANGED rscVars
    /\ UNCHANGED hostVars

(***************************************************************************)
(* run_shell_command                                                       *)
(***************************************************************************)
TextAlphabet == {"a", " ", SQ, DQ, BSL, "!"}

BoundedTexts == UNION {[1..k -> TextAlphabet] : k \in 0..MaxLen}

ScenarioTexts ==
    {S_pipe, S_negation, S_or, S_redirect, S_apt_get_update, S_CURL}

Texts == BoundedTexts \cup ScenarioTexts

\* the leading bits of the pre-wrapped commands tried
ShellHeads == {<<S_sh, S_dash_c>>, <<S_bash, S_dash_c>>, <<S_sh>>}

ListCommands ==
    { ListCommand(<<S_apt_get, S_update>>),
      ListCommand(<<S_echo, S_its>>),
      ListCommand(<<S_echo>>) }

Commands ==
    {StrCommand(t) : t \in Texts}
        \cup {StringCommand(<<t>>) : t \in Texts}
        \cup {StringCommand(h \o <<t>>) : h \in ShellHeads, t \in Texts}
        \cup {StringCommand(<<S_echo, t>>) : t \in ScenarioTexts}
        \cup ListCommands

\* the commands tried with every retry setting; the others are run with
\* max_retries = 0, the argv not depending on the retry setting
RetryProbes == {StrCommand(S_apt_get_update), StrCommand(S_negation)}

ArgumentSets(c) ==
    [sudo : BOOLEAN,
     sudo_user : {<<>>, S_postgres},
     user : {<<>>, S_ubuntu},
     workdir : {<<>>, S_workdir},
     max_retries : IF c \in RetryProbes
                   THEN {<<>>} \cup {<<n>> : n \in (-1)..RunMaxRetries}
                   ELSE {<<0>>},
     timeout : IF c \in RetryProbes THEN {0, 30} ELSE {0}]

VmNames == {<<>>, S_test_vm}

\* run_shell_command up to its call of _execute_with_retry, or up to its
\* return when it does not get that far
RscEnter(who, c, a, v) ==
    /\ rcaller' = who
    /\ command' = c
    /\ arguments' = a
    /\ vm_name' = v
    /\ IF v = <<>>
       THEN /\ rpc' = "done"
            /\ rret' = [success |-> FALSE,
                        output |-> <<OutputLine("stderr", S_VMNameNotFound)>>]
            /\ UNCHANGED execVars
       ELSE LET ca == CommandArgs(c, a) IN
            IF ~ca.ok
            THEN /\ rpc' = "done"
                 /\ rret' = [success |-> FALSE,
                             output |-> <<OutputLine("stderr",
                                 S_UnexpectedError \o S_NoClosingQuotation)>>]
                 /\ UNCHANGED execVars
            ELSE /\ rpc' = "executing"
                 /\ rret' = [success |-> FALSE, output |-> <<>>]
                 /\ ExecEnter("run_shell_command",
                              BuildCmd(v, a, ca.tokens),
                              IF a.max_retries = <<>>
                              THEN DefaultMaxRetries
                              ELSE a.max_retries[1],
                              DefaultBaseDelay,
                              a.timeout,
                              IsNetworkOperation(c))

\* a call of run_shell_command by the user of the connector
RunShellCommand ==
    /\ rpc = "idle"
    /\ epc = "idle"
    /\ Quiet
    /\ UNCHANGED hostVars
    /\ \E c \in Commands, v \in VmNames :
         \E a \in ArgumentSets(c) : RscEnter("direct", c, a, v)

\* a plausible slip: the clause for subprocess.TimeoutExpired is missing,
\* so that a timeout is reported by the general clause
RscResultNoTimeoutClause(r) ==
    IF r.how = "returned"
    THEN [success |-> r.value.returncode = 0, output |-> OutputLines(r.value)]
    ELSE [success |-> FALSE,
          output |-> <<OutputLine("stderr", S_UnexpectedError \o r.value.msg)>>]

\* what run_shell_command returns once _execute_with_retry has ended
RscResult(r) ==
    IF r.how = "returned"
    THEN [success |-> r.value.returncode = 0, output |-> OutputLines(r.value)]
    ELSE IF r.value.kind = "timeout"
    THEN [success |-> FALSE,
          output |-> <<OutputLine("stderr", S_CommandTimedOut)>>]
    ELSE [success |-> FALSE,
          output |-> <<OutputLine("stderr", S_UnexpectedError \o r.value.msg)>>]

\* the rest of run_shell_command: the result parsed, or the exception caught
RscReturn ==
    /\ rpc = "executing"
    /\ UNCHANGED hostVars
    /\ caller = "run_shell_command"
    /\ epc \in {"returned", "raised"}
    /\ rret' = RscResult(eret)
    /\ rpc' = "done"
    /\ UNCHANGED <<rcaller, command, arguments, vm_name>>
    /\ UNCHANGED execVars
(***************************************************************************)
(* subprocess.run called directly, as connect, make_names_data and the     *)
(* file transfers call it: no timeout is given, so it either completes or  *)
(* raises an exception such as FileNotFoundError; with check=True a        *)
(* non-zero returncode raises subprocess.CalledProcessError.               *)
(***************************************************************************)
Ran(rc, out, err) ==
    [kind |-> "completed", returncode |-> rc, stdout |-> out, stderr |-> err,
     msg |-> <<>>]

RanNothing == Unparsable(<<>>)

\* the variables of _execute_with_retry other than the log of processes
execLocals ==
    <<caller, cmd, max_retries, base_delay, timeout, is_network_operation,
      attempt, epc, cmd_timeout, hist, sleeps, eret>>

\* everything is at rest: a new call can be made
AllIdle == epc = "idle" /\ rpc = "idle" /\ Quiet

(***************************************************************************)
(* connect                                                                 *)
(***************************************************************************)
InfoDocument(state) ==
    Document(JDict([record |-> JDict([state |-> JStr(state)])]))

\* what "orbctl info <vm> -f json" may do
InfoOutcomes ==
    { Ran(0, InfoDocument(S_running), <<>>),
      Ran(0, InfoDocument(S_stopped), <<>>),
      Ran(0, Document(JEmpty), <<>>),
      Ran(0, Document(JDict([record |-> JNull])), <<>>),
      Ran(0, Document(JList(<<>>)), <<>>),
      Ran(0, Unparsable(S_not_json), <<>>),
      Ran(1, RanNothing, S_Network_Timeout),
      RaisedError(S_boom) }

\* what "orbctl start <vm>" may do
StartOutcomes ==
    { Ran(0, RanNothing, <<>>),
      Ran(1, RanNothing, S_Network_Timeout),
      RaisedError(S_boom) }

ConnectInit ==
    /\ cpc = "idle"
    /\ cvm = <<>>
    /\ cret = [how |-> "none", value |-> FALSE]
    /\ cresult = NoOutcome

\* what connect does with the outcome of the info query: it returns True
\* or False, goes on to start the machine, or lets an exception through
\* (only CalledProcessError is caught)
AfterInfo(o) ==
    IF o.kind # "completed" THEN "raise"
    ELSE IF o.returncode # 0 THEN "false"
    ELSE LET vm_info == JsonLoads(o.stdout)
         IN  IF ~vm_info.ok THEN "raise"
             ELSE LET st == PyGetNested(vm_info.value, "record", "state", JNull)
                  IN  IF ~st.ok THEN "raise"
                      ELSE IF st.value = JStr(S_running) THEN "true"
                      ELSE "start"

\* what connect does with the outcome of the start invocation
AfterStart(o) ==
    IF o.kind # "completed" THEN "raise"
    ELSE IF o.returncode # 0 THEN "false"
    ELSE "true"

ConnectEnd(verdict) ==
    /\ cpc' = "done"
    /\ cret' = CASE verdict = "true" -> [how |-> "returned", value |-> TRUE]
                 [] verdict = "false" -> [how |-> "returned", value |-> FALSE]
                 [] OTHER -> [how |-> "raised", value |-> FALSE]

\* connect up to its first subprocess.run
Connect ==
    /\ AllIdle
    /\ \E v \in VmNames :
         /\ cvm' = v
         /\ IF v = <<>>
            THEN ConnectEnd("false")
            ELSE cpc' = "info" /\ cret' = cret
    /\ UNCHANGED <<cresult, execVars, rscVars, fileVars, discVars, pairVars>>

\* subprocess.run(["orbctl", "info", vm_name, "-f", "json"], check=True)
\* and what follows it up to the next subprocess.run
ConnectInfo ==
    /\ cpc = "info"
    /\ procs' = Append(procs, <<S_orbctl, S_info, cvm, S_dash_f, S_json>>)
    /\ \E o \in InfoOutcomes :
         LET verdict == AfterInfo(o)
         IN  /\ cresult' = o
             /\ IF verdict = "start"
                THEN cpc' = "start" /\ cret' = cret
                ELSE ConnectEnd(verdict)
    /\ UNCHANGED <<cvm, execLocals, rscVars, fileVars, discVars, pairVars>>

\* subprocess.run(["orbctl", "start", vm_name], check=True)
ConnectStart ==
    /\ cpc = "start"
    /\ procs' = Append(procs, <<S_orbctl, S_start, cvm>>)
    /\ \E o \in StartOutcomes : cresult' = o /\ ConnectEnd(AfterStart(o))
    /\ UNCHANGED <<cvm, execLocals, rscVars, fileVars, discVars, pairVars>>

(***************************************************************************)
(* put_file and get_file                                                   *)
(***************************************************************************)
\* os.urandom(8).hex(), shortened
TempSuffixes == {S_suffix_a, S_suffix_b}

\* a plausible slip: a staging path without the random part
TempPathFixed(suffix) == S_temp_prefix \o S_suffix_a

\* temp_remote = f"/tmp/pyinfra_orbstack_{os.urandom(8).hex()}"
TempPath(suffix) == S_temp_prefix \o suffix

RemoteNames == {S_remote_plain, S_remote_blank}

\* the keyword arguments of a transfer; mode is used by put_file only
TransferArguments(op) ==
    [sudo : BOOLEAN,
     sudo_user : {<<>>, S_postgres},
     mode : IF op = "put" THEN {<<>>, S_644} ELSE {<<>>}]

\* what "orbctl push" and "orbctl pull" may do
TransferOutcomes ==
    { Ran(0, RanNothing, <<>>),
      Ran(1, RanNothing, S_command_not_found),
      RaisedError(S_boom) }

FileInit ==
    /\ fpc = "idle"
    /\ fop = "none"
    /\ fvm = <<>>
    /\ fargs = [sudo |-> FALSE, sudo_user |-> <<>>, mode |-> <<>>]
    /\ local_file = <<>>
    /\ remote_filename = <<>>
    /\ temp_remote = <<>>
    /\ fret = [how |-> "none", value |-> FALSE]
    /\ steps = <<>>

\* "sudo -H" or "sudo -H -u <sudo_user>", as the transfers write it at the
\* head of their shell commands
SudoWords(sudo_user) ==
    IF sudo_user # <<>> THEN <<S_sudo, S_dash_H, S_dash_u, sudo_user>>
    ELSE <<S_sudo, S_dash_H>>

\* mv_cmd of put_file
MvCmd(sudo_user, temp, remote) ==
    Join(<<" ">>, SudoWords(sudo_user)
                      \o <<S_mv, ShlexQuote(temp), ShlexQuote(remote)>>)

\* cleanup_cmd of put_file
CleanupCmd(temp) == Join(<<" ">>, <<S_rm, S_dash_f, ShlexQuote(temp)>>)

\* chmod_cmd of put_file
PutChmodCmd(sudo_user, mode, remote) ==
    Join(<<" ">>, SudoWords(sudo_user)
                      \o <<S_chmod, mode, ShlexQuote(remote)>>)

\* cp_cmd of get_file
CpCmd(sudo_user, remote, temp) ==
    Join(<<" ">>, SudoWords(sudo_user)
                      \o <<S_cp, ShlexQuote(remote), ShlexQuote(temp)>>)

\* chmod_cmd of get_file
GetChmodCmd(temp) ==
    Join(<<" ">>, <<S_sudo, S_dash_H, S_chmod, S_644, ShlexQuote(temp)>>)

\* rm_cmd of get_file
RmCmd(temp) ==
    Join(<<" ">>, <<S_sudo, S_dash_H, S_rm, S_dash_f, ShlexQuote(temp)>>)

\* run_shell_command has returned to the transfer that called it: the
\* locals of the call are gone, the log of processes stays
CallReturned ==
    /\ rcaller' = "none"
    /\ rpc' = "idle"
    /\ command' = StrCommand(<<>>)
    /\ arguments' = NoArguments
    /\ vm_name' = <<>>
    /\ rret' = [success |-> FALSE, output |-> <<>>]
    /\ caller' = "none"
    /\ cmd' = <<>>
    /\ max_retries' = 0
    /\ base_delay' = 0
    /\ timeout' = 0
    /\ is_network_operation' = FALSE
    /\ attempt' = 0
    /\ epc' = "idle"
    /\ cmd_timeout' = 0
    /\ hist' = <<>>
    /\ sleeps' = <<>>
    /\ eret' = [how |-> "none", value |-> NoOutcome]
    /\ procs' = procs

\* the transfer returns
FileEnd(value) ==
    /\ fpc' = "done"
    /\ fret' = [how |-> "returned", value |-> value]

\* how a subprocess.run(..., check=True) of a transfer went
StepResult(o) ==
    IF o.kind # "completed" THEN "raised"
    ELSE IF o.returncode = 0 THEN "ok" ELSE "failed"

\* subprocess.run(argv, check=True), made by the transfer itself
ProcessStep(name, argv, o) ==
    [step |-> name, via |-> "process", request |-> argv,
     result |-> StepResult(o)]

\* self.run_shell_command(text), which has not returned yet
ShellStep(name, text) ==
    [step |-> name, via |-> "shell", request |-> text, result |-> "pending"]

\* the log once the run_shell_command under way has returned
StepsAfterCall ==
    [steps EXCEPT ![Len(steps)].result =
                      IF rret.success THEN "ok" ELSE "failed"]

\* self.run_shell_command(text), called by a transfer that goes on at pc;
\* log is the log of its invocations up to the call
FileRunShell(name, text, pc, log) ==
    /\ RscEnter(fop, StrCommand(text), NoArguments, fvm)
    /\ fpc' = pc
    /\ fret' = fret
    /\ steps' = Append(log, ShellStep(name, text))

\* a plausible slip: the transfer goes on without looking at the machine
\* name
FileEnterUnchecked(op, v, a, loc, remote, suffix, first) ==
    /\ fop' = op
    /\ fvm' = v
    /\ fargs' = a
    /\ local_file' = loc
    /\ remote_filename' = remote
    /\ fret' = fret
    /\ steps' = <<>>
    /\ IF a.sudo
       THEN temp_remote' = TempPath(suffix) /\ fpc' = first
       ELSE temp_remote' = <<>> /\ fpc' = "direct"

\* the entry of put_file or get_file, up to its first invocation
FileEnter(op, v, a, loc, remote, suffix, first) ==
    /\ fop' = op
    /\ fvm' = v
    /\ fargs' = a
    /\ local_file' = loc
    /\ remote_filename' = remote
    /\ steps' = <<>>
    /\ IF v = <<>>
       THEN temp_remote' = <<>> /\ FileEnd(FALSE)
       ELSE IF a.sudo
       THEN /\ temp_remote' = TempPath(suffix)
            /\ fpc' = first
            /\ fret' = fret
       ELSE /\ temp_remote' = <<>>
            /\ fpc' = "direct"
            /\ fret' = fret

fileInputs == <<fop, fvm, fargs, local_file, remote_filename, temp_remote>>

\* subprocess.run(..., check=True) went through
Succeeded(o) == o.kind = "completed" /\ o.returncode = 0

\* a call of put_file by the user of the connector
PutFile ==
    /\ AllIdle
    /\ \E v \in VmNames, a \in TransferArguments("put"),
          remote \in RemoteNames, suffix \in TempSuffixes :
         FileEnter("put", v, a, S_local, remote, suffix, "push_temp")
    /\ UNCHANGED <<execVars, rscVars, connVars, discVars, pairVars>>

\* put_file without sudo: one push to the destination
PutDirect ==
    /\ fpc = "direct"
    /\ fop = "put"
    /\ procs' = Append(procs, <<S_orbctl, S_push, S_dash_m, fvm,
                                local_file, remote_filename>>)
    /\ \E o \in TransferOutcomes :
         /\ steps' = Append(steps, ProcessStep("push", procs'[Len(procs')], o))
         /\ FileEnd(Succeeded(o))
    /\ UNCHANGED <<fileInputs, execLocals, rscVars, connVars, discVars, pairVars>>

\* put_file with sudo: the push to the staging path
PutPushTemp ==
    /\ fpc = "push_temp"
    /\ procs' = Append(procs, <<S_orbctl, S_push, S_dash_m, fvm,
                                local_file, temp_remote>>)
    /\ \E o \in TransferOutcomes :
         /\ steps' = Append(steps, ProcessStep("push", procs'[Len(procs')], o))
         /\ IF Succeeded(o) THEN fpc' = "mv" /\ fret' = fret
            ELSE FileEnd(FALSE)
    /\ UNCHANGED <<fileInputs, execLocals, rscVars, connVars, discVars, pairVars>>

\* success, output = self.run_shell_command(mv_cmd)
PutMove ==
    /\ fpc = "mv"
    /\ FileRunShell("mv",
                    MvCmd(fargs.sudo_user, temp_remote, remote_filename),
                    "mv_wait", steps)
    /\ UNCHANGED <<fileInputs, connVars, discVars, pairVars>>

\* a plausible slip: a failed move returns False at once and leaves the
\* staging file behind
PutAfterMoveNoCleanup ==
    /\ fpc = "mv_wait"
    /\ rpc = "done"
    /\ IF ~rret.success
       THEN FileEnd(FALSE) /\ CallReturned /\ steps' = StepsAfterCall
       ELSE IF fargs.mode # <<>>
       THEN FileRunShell("chmod",
                         PutChmodCmd(fargs.sudo_user, fargs.mode,
                                     remote_filename),
                         "chmod_wait", StepsAfterCall)
       ELSE FileEnd(TRUE) /\ CallReturned /\ steps' = StepsAfterCall
    /\ UNCHANGED <<fileInputs, connVars, discVars, pairVars>>

\* put_file after the move: the cleanup when it failed, the chmod when a
\* mode was asked for, the return otherwise
PutAfterMove ==
    /\ fpc = "mv_wait"
    /\ rpc = "done"
    /\ IF ~rret.success
       THEN FileRunShell("cleanup", CleanupCmd(temp_remote),
                         "cleanup_wait", StepsAfterCall)
       ELSE IF fargs.mode # <<>>
       THEN FileRunShell("chmod",
                         PutChmodCmd(fargs.sudo_user, fargs.mode,
                                     remote_filename),
                         "chmod_wait", StepsAfterCall)
       ELSE FileEnd(TRUE) /\ CallReturned /\ steps' = StepsAfterCall
    /\ UNCHANGED <<fileInputs, connVars, discVars, pairVars>>

\* put_file after the cleanup of a failed move
PutAfterCleanup ==
    /\ fpc = "cleanup_wait"
    /\ rpc = "done"
    /\ FileEnd(FALSE)
    /\ CallReturned
    /\ steps' = StepsAfterCall
    /\ UNCHANGED <<fileInputs, connVars, discVars, pairVars>>

\* put_file after the chmod, whose result does not count
PutAfterChmod ==
    /\ fpc = "chmod_wait"
    /\ fop = "put"
    /\ rpc = "done"
    /\ FileEnd(TRUE)
    /\ CallReturned
    /\ steps' = StepsAfterCall
    /\ UNCHANGED <<fileInputs, connVars, discVars, pairVars>>

\* a call of get_file by the user of the connector
GetFile ==
    /\ AllIdle
    /\ \E v \in VmNames, a \in TransferArguments("get"),
          remote \in RemoteNames, suffix \in TempSuffixes :
         FileEnter("get", v, a, S_local, remote, suffix, "cp")
    /\ UNCHANGED <<execVars, rscVars, connVars, discVars, pairVars>>

\* a plausible slip: the arguments of the pull in the order of the push
GetDirectSwapped ==
    /\ fpc = "direct"
    /\ fop = "get"
    /\ procs' = Append(procs, <<S_orbctl, S_pull, S_dash_m, fvm,
                                local_file, remote_filename>>)
    /\ \E o \in TransferOutcomes :
         /\ steps' = Append(steps, ProcessStep("pull", procs'[Len(procs')], o))
         /\ FileEnd(Succeeded(o))
    /\ UNCHANGED <<fileInputs, execLocals, rscVars, connVars, discVars, pairVars>>

\* get_file without sudo: one pull from the source
GetDirect ==
    /\ fpc = "direct"
    /\ fop = "get"
    /\ procs' = Append(procs, <<S_orbctl, S_pull, S_dash_m, fvm,
                                remote_filename, local_file>>)
    /\ \E o \in TransferOutcomes :
         /\ steps' = Append(steps, ProcessStep("pull", procs'[Len(procs')], o))
         /\ FileEnd(Succeeded(o))
    /\ UNCHANGED <<fileInputs, execLocals, rscVars, connVars, discVars, pairVars>>

\* success, output = self.run_shell_command(cp_cmd)
GetCopy ==
    /\ fpc = "cp"
    /\ FileRunShell("cp",
                    CpCmd(fargs.sudo_user, remote_filename, temp_remote),
                    "cp_wait", steps)
    /\ UNCHANGED <<fileInputs, connVars, discVars, pairVars>>

\* get_file after the copy: the return when it failed, the chmod otherwise
GetAfterCopy ==
    /\ fpc = "cp_wait"
    /\ rpc = "done"
    /\ IF ~rret.success
       THEN FileEnd(FALSE) /\ CallReturned /\ steps' = StepsAfterCall
       ELSE FileRunShell("chmod", GetChmodCmd(temp_remote), "chmod_wait",
                         StepsAfterCall)
    /\ UNCHANGED <<fileInputs, connVars, discVars, pairVars>>

\* get_file after the chmod, whose result does not count
GetAfterChmod ==
    /\ fpc = "chmod_wait"
    /\ fop = "get"
    /\ rpc = "done"
    /\ fpc' = "pull"
    /\ CallReturned
    /\ steps' = StepsAfterCall
    /\ UNCHANGED <<fret, fileInputs, connVars, discVars, pairVars>>

\* the pull from the staging path: on CalledProcessError the staging copy
\* is still removed; any other exception ends get_file at once
GetPull ==
    /\ fpc = "pull"
    /\ procs' = Append(procs, <<S_orbctl, S_pull, S_dash_m, fvm,
                                temp_remote, local_file>>)
    /\ \E o \in TransferOutcomes :
         /\ steps' = Append(steps, ProcessStep("pull", procs'[Len(procs')], o))
         /\ IF Succeeded(o) THEN fpc' = "rm" /\ fret' = fret
            ELSE IF o.kind = "completed"
            THEN fpc' = "rm_failed" /\ fret' = fret
            ELSE FileEnd(FALSE)
    /\ UNCHANGED <<fileInputs, execLocals, rscVars, connVars, discVars, pairVars>>

\* self.run_shell_command(rm_cmd), after a pull that worked or failed
GetRemove ==
    /\ fpc \in {"rm", "rm_failed"}
    /\ FileRunShell("rm", RmCmd(temp_remote),
                    IF fpc = "rm" THEN "rm_wait" ELSE "rm_failed_wait",
                    steps)
    /\ UNCHANGED <<fileInputs, connVars, discVars, pairVars>>

\* get_file after the removal, whose result does not count
GetAfterRemove ==
    /\ fpc \in {"rm_wait", "rm_failed_wait"}
    /\ rpc = "done"
    /\ FileEnd(fpc = "rm_wait")
    /\ CallReturned
    /\ steps' = StepsAfterCall
    /\ UNCHANGED <<fileInputs, connVars, discVars, pairVars>>

(***************************************************************************)
(* make_names_data                                                         *)
(***************************************************************************)
\* a dict field that may be absent: <<>>, or <<value>>
Field(key, maybe) == IF maybe = <<>> THEN <<>> ELSE key :> maybe[1]

\* the "image" dict of a machine record
Image(arch, distro, version) ==
    JDict(Field("arch", arch) @@ Field("distro", distro)
              @@ Field("version", version))

\* a machine record of "orbctl list -f json"
Machine(name, state, image, id, config) ==
    JDict(Field("name", name) @@ Field("state", state)
              @@ Field("image", image) @@ Field("id", id)
              @@ Field("config", config))

MaybeNames == {<<>>, <<JStr(S_web)>>, <<JStr(S_db)>>}

MaybeStates ==
    {<<>>, <<JStr(S_running)>>, <<JStr(S_stopped)>>, <<JStr(S_starting)>>}

MaybeArchs ==
    {<<>>, <<JStr(S_arm64)>>, <<JStr(S_amd64)>>, <<JStr(S_riscv64)>>}

MaybeImages ==
    {<<>>, <<JNull>>}
        \cup {<<Image(arch, <<>>, <<>>)>> : arch \in MaybeArchs}
        \cup {<<Image(arch, <<JStr(<<>>)>>, <<>>)>> : arch \in MaybeArchs}
        \cup {<<Image(arch, <<JStr(S_ubuntu)>>, <<JStr(S_version)>>)>> :
                  arch \in MaybeArchs}

\* id and config.default_username: both absent, config empty, or both there
MaybeIdConfigs ==
    { <<<<>>, <<>>>>,
      <<<<>>, <<JEmpty>>>>,
      <<<<JStr(S_vm_id)>>, <<JDict("default_username" :> JStr(S_ubuntu))>>>> }

Machines ==
    { Machine(name, state, image, ic[1], ic[2]) :
          name \in MaybeNames, state \in MaybeStates,
          image \in MaybeImages, ic \in MaybeIdConfigs }

\* the machines of the longer listings
ListedMachines ==
    { Machine(<<JStr(S_web)>>, <<JStr(S_running)>>,
              <<Image(<<JStr(S_arm64)>>, <<JStr(S_ubuntu)>>, <<>>)>>,
              <<>>, <<>>),
      Machine(<<JStr(S_db)>>, <<JStr(S_stopped)>>, <<>>, <<>>, <<>>),
      Machine(<<JStr(S_web)>>, <<>>, <<>>, <<>>, <<>>) }

VmLists ==
    {<<>>} \cup {<<m>> : m \in Machines}
        \cup UNION {[1..n -> ListedMachines] : n \in 2..MaxVms}

\* what "orbctl list -f json" may do
ListOutcomes ==
    {Ran(0, Document(JList(l)), <<>>) : l \in VmLists}
        \cup { Ran(1, RanNothing, S_Network_Timeout),
               Ran(0, Unparsable(S_not_json), <<>>),
               Ran(0, Unparsable(<<>>), <<>>),
               Ran(0, Document(JNull), <<>>),
               Ran(0, Document(JStr(S_web)), <<>>),
               Ran(0, Document(JList(<<JStr(S_web)>>)), <<>>),
               Ran(0, Document(Machine(<<JStr(S_web)>>, <<>>, <<>>, <<>>,
                                       <<>>)), <<>>),
               RaisedError(S_boom) }

\* the argument hostname: None, or a machine name
Hostnames == {<<>>, S_web}

DiscInit ==
    /\ dpc = "idle"
    /\ hostname = <<>>
    /\ vms = JNull
    /\ di = 0
    /\ yielded = <<>>
    /\ dret = "none"
    /\ dresult = NoOutcome

\* "{distro}" in an f-string, for a str
PyFormat(v) == CASE v.t = "str" -> v.s

\* a plausible slip: the arch and the distro are looked at only for a
\* machine that is running or stopped
GroupsChained(state, arch, distro) ==
    IF state \notin {JStr(S_running), JStr(S_stopped)} THEN <<S_orbstack>>
    ELSE <<S_orbstack>>
             \o (IF state = JStr(S_running) THEN <<S_orbstack_running>>
                 ELSE <<S_orbstack_stopped>>)
             \o (IF arch = JStr(S_arm64) THEN <<S_orbstack_arm64>>
                 ELSE IF arch = JStr(S_amd64) THEN <<S_orbstack_amd64>>
                 ELSE <<>>)
             \o (IF Truthy(distro) THEN <<S_orbstack_ \o PyFormat(distro)>>
                 ELSE <<>>)

\* the groups a machine record is put in
Groups(state, arch, distro) ==
    <<S_orbstack>>
        \o (IF state = JStr(S_running) THEN <<S_orbstack_running>>
            ELSE IF state = JStr(S_stopped) THEN <<S_orbstack_stopped>>
            ELSE <<>>)
        \o (IF arch = JStr(S_arm64) THEN <<S_orbstack_arm64>>
            ELSE IF arch = JStr(S_amd64) THEN <<S_orbstack_amd64>>
            ELSE <<>>)
        \o (IF Truthy(distro) THEN <<S_orbstack_ \o PyFormat(distro)>>
            ELSE <<>>)

\* a plausible slip: the hostname filter is not applied
VmEntryUnfiltered(vm, filter) ==
    LET name == PyGet(vm, "name", JStr(<<>>))
        vm_id == PyGet(vm, "id", JStr(<<>>))
        vm_status == PyGet(vm, "state", JStr(S_unknown))
        vm_distro == PyGetNested(vm, "image", "distro", JStr(<<>>))
        vm_version == PyGetNested(vm, "image", "version", JStr(<<>>))
        vm_arch == PyGetNested(vm, "image", "arch", JStr(<<>>))
        vm_username ==
            PyGetNested(vm, "config", "default_username", JStr(<<>>))
        state == PyGet(vm, "state", JNull)
        arch == PyGetNested(vm, "image", "arch", JNull)
    IN  IF ~name.ok THEN [verdict |-> "raise", item |-> <<>>]
        ELSE IF ~(vm_distro.ok /\ vm_username.ok)
        THEN [verdict |-> "raise", item |-> <<>>]
        ELSE [verdict |-> "yield",
              item |-> [name |-> name.value,
                        data |-> [orbstack_vm |-> TRUE,
                                  vm_name |-> name.value,
                                  vm_id |-> vm_id.value,
                                  vm_status |-> vm_status.value,
                                  vm_distro |-> vm_distro.value,
                                  vm_version |-> vm_version.value,
                                  vm_arch |-> vm_arch.value,
                                  vm_username |-> vm_username.value],
                        groups |-> Groups(state.value, arch.value,
                                          vm_distro.value)]]

\* one pass of the body of "for vm in vms": the element is skipped, a
\* tuple is yielded, or an AttributeError gets out of the generator
VmEntry(vm, filter) ==
    LET name == PyGet(vm, "name", JStr(<<>>))
        vm_id == PyGet(vm, "id", JStr(<<>>))
        vm_status == PyGet(vm, "state", JStr(S_unknown))
        vm_distro == PyGetNested(vm, "image", "distro", JStr(<<>>))
        vm_version == PyGetNested(vm, "image", "version", JStr(<<>>))
        vm_arch == PyGetNested(vm, "image", "arch", JStr(<<>>))
        vm_username ==
            PyGetNested(vm, "config", "default_username", JStr(<<>>))
        state == PyGet(vm, "state", JNull)
        arch == PyGetNested(vm, "image", "arch", JNull)
    IN  IF ~name.ok THEN [verdict |-> "raise", item |-> <<>>]
        ELSE IF filter # <<>> /\ name.value # JStr(filter)
        THEN [verdict |-> "skip", item |-> <<>>]
        ELSE IF ~(vm_distro.ok /\ vm_username.ok)
        THEN [verdict |-> "raise", item |-> <<>>]
        ELSE [verdict |-> "yield",
              item |-> [name |-> name.value,
                        data |-> [orbstack_vm |-> TRUE,
                                  vm_name |-> name.value,
                                  vm_id |-> vm_id.value,
                                  vm_status |-> vm_status.value,
                                  vm_distro |-> vm_distro.value,
                                  vm_version |-> vm_version.value,
                                  vm_arch |-> vm_arch.value,
                                  vm_username |-> vm_username.value],
                        groups |-> Groups(state.value, arch.value,
                                          vm_distro.value)]]

\* a call of make_names_data; being a generator, it runs nothing yet
MakeNamesData ==
    /\ AllIdle
    /\ \E h \in Hostnames : hostname' = h
    /\ dpc' = "list"
    /\ UNCHANGED <<vms, di, yielded, dret, dresult>>
    /\ UNCHANGED <<execVars, rscVars, connVars, fileVars, pairVars>>

\* subprocess.run(["orbctl", "list", "-f", "json"], check=True) and
\* json.loads(result.stdout): CalledProcessError and JSONDecodeError are
\* caught and printed, any other exception gets out
DiscList ==
    /\ dpc = "list"
    /\ procs' = Append(procs, <<S_orbctl, S_list, S_dash_f, S_json>>)
    /\ \E o \in ListOutcomes :
         /\ dresult' = o
         /\ IF o.kind # "completed"
            THEN dpc' = "done" /\ dret' = "raised" /\ vms' = vms
            ELSE IF o.returncode # 0 \/ ~JsonLoads(o.stdout).ok
            THEN dpc' = "done" /\ dret' = "error_printed" /\ vms' = vms
            ELSE /\ dpc' = "iterating"
                 /\ dret' = dret
                 /\ vms' = JsonLoads(o.stdout).value
    /\ UNCHANGED <<hostname, di, yielded>>
    /\ UNCHANGED <<execLocals, rscVars, connVars, fileVars, pairVars>>

\* the for loop: one element of vms, or its end
DiscNext ==
    /\ dpc = "iterating"
    /\ LET it == PyIter(vms)
       IN  IF ~it.ok
           THEN dpc' = "done" /\ dret' = "raised" /\ UNCHANGED <<di, yielded>>
           ELSE IF di = Len(it.items)
           THEN dpc' = "done" /\ dret' = "exhausted"
                    /\ UNCHANGED <<di, yielded>>
           ELSE LET e == VmEntry(it.items[di + 1], hostname)
                IN  IF e.verdict = "raise"
                    THEN dpc' = "done" /\ dret' = "raised"
                             /\ UNCHANGED <<di, yielded>>
                    ELSE /\ di' = di + 1
                         /\ yielded' = IF e.verdict = "yield"
                                       THEN Append(yielded, e.item)
                                       ELSE yielded
                         /\ UNCHANGED <<dpc, dret>>
    /\ UNCHANGED <<hostname, vms, dresult>>
    /\ UNCHANGED <<execVars, rscVars, connVars, fileVars, pairVars>>

(***************************************************************************)
(* Two transfers on one machine. Each call of run_shell_command made by a  *)
(* transfer is one step here: the machine is touched once per invocation,  *)
(* and another transfer may run between any two invocations.               *)
(***************************************************************************)
Transfers == {1, 2}

\* the machine both transfers talk to
PairVm == S_test_vm

\* no file at that path
Absent == "absent"

\* the paths of the machine that the transfers touch
MachinePaths == RemoteNames \cup {TempPath(suffix) : suffix \in TempSuffixes}

IdleTransfer ==
    [pc |-> "idle", op |-> "none",
     args |-> [sudo |-> FALSE, sudo_user |-> <<>>, mode |-> <<>>],
     remote |-> <<>>, suffix |-> <<>>, temp |-> <<>>, ret |-> "none",
     log |-> <<>>, after |-> {}]

PairInit ==
    /\ xf = [t \in Transfers |-> IdleTransfer]
    /\ machine = [p \in MachinePaths |->
                      IF p = S_remote_plain THEN "old" ELSE Absent]
    /\ hostfs = (S_local :> "new") @@ (S_download :> Absent)

\* sudo, sudo_user and mode of a transfer; sudo_user and mode are read
\* only with sudo, mode only by put_file
PairArguments(op) ==
    {[sudo |-> FALSE, sudo_user |-> <<>>, mode |-> <<>>]}
        \cup { [sudo |-> TRUE, sudo_user |-> u, mode |-> m] :
                   u \in {<<>>, S_postgres},
                   m \in IF op = "put" THEN {<<>>, S_644} ELSE {<<>>} }

\* the argv run_shell_command builds for a text, without arguments
ShellArgv(text) ==
    BuildCmd(PairVm, NoArguments,
             CommandArgs(StrCommand(text), NoArguments).tokens)

\* the argv of the invocation a transfer makes at its position
XferRequest(x) ==
    CASE x.pc = "direct" ->
             IF x.op = "put"
             THEN <<S_orbctl, S_push, S_dash_m, PairVm, S_local, x.remote>>
             ELSE <<S_orbctl, S_pull, S_dash_m, PairVm, x.remote, S_download>>
      [] x.pc = "push" ->
             <<S_orbctl, S_push, S_dash_m, PairVm, S_local, x.temp>>
      [] x.pc = "mv" -> ShellArgv(MvCmd(x.args.sudo_user, x.temp, x.remote))
      [] x.pc = "cleanup" -> ShellArgv(CleanupCmd(x.temp))
      [] x.pc = "chmod" ->
             IF x.op = "put"
             THEN ShellArgv(PutChmodCmd(x.args.sudo_user, x.args.mode,
                                        x.remote))
             ELSE ShellArgv(GetChmodCmd(x.temp))
      [] x.pc = "cp" -> ShellArgv(CpCmd(x.args.sudo_user, x.remote, x.temp))
      [] x.pc = "pull" ->
             <<S_orbctl, S_pull, S_dash_m, PairVm, x.temp, S_download>>
      [] x.pc \in {"rm", "rm_failed"} -> ShellArgv(RmCmd(x.temp))

\* how an invocation may end: subprocess.run(..., check=True) goes
\* through, raises CalledProcessError or raises something else;
\* run_shell_command returns success or not
StepResults(pc) ==
    IF pc \in {"direct", "push", "pull"} THEN {"ok", "failed", "raised"}
    ELSE {"ok", "failed"}

\* a plausible slip: get_file returns after the pull and leaves the
\* staging copy behind
AfterStepNoRemoval(op, pc, r, mode) ==
    CASE pc = "direct" -> IF r = "ok" THEN "true" ELSE "false"
      [] pc = "push" -> IF r = "ok" THEN "mv" ELSE "false"
      [] pc = "mv" -> IF r # "ok" THEN "cleanup"
                      ELSE IF mode # <<>> THEN "chmod" ELSE "true"
      [] pc = "cleanup" -> "false"
      [] pc = "chmod" -> IF op = "put" THEN "true" ELSE "pull"
      [] pc = "cp" -> IF r = "ok" THEN "chmod" ELSE "false"
      [] pc = "pull" -> IF r = "ok" THEN "true"
                        ELSE IF r = "failed" THEN "rm_failed" ELSE "false"
      [] pc = "rm" -> "true"
      [] pc = "rm_failed" -> "false"

\* where put_file or get_file goes after the invocation at pc ended with
\* r: the next invocation, or the value it returns
AfterStep(op, pc, r, mode) ==
    CASE pc = "direct" -> IF r = "ok" THEN "true" ELSE "false"
      [] pc = "push" -> IF r = "ok" THEN "mv" ELSE "false"
      [] pc = "mv" -> IF r # "ok" THEN "cleanup"
                      ELSE IF mode # <<>> THEN "chmod" ELSE "true"
      [] pc = "cleanup" -> "false"
      [] pc = "chmod" -> IF op = "put" THEN "true" ELSE "pull"
      [] pc = "cp" -> IF r = "ok" THEN "chmod" ELSE "false"
      [] pc = "pull" -> IF r = "ok" THEN "rm"
                        ELSE IF r = "failed" THEN "rm_failed" ELSE "false"
      [] pc = "rm" -> "true"
      [] pc = "rm_failed" -> "false"

\* what an argv asks of the machine: the orbctl subcommand and its two
\* paths, or the program of the sh -c text (after its sudo words) and the
\* paths that end the text, split the way sh splits it
Asked(argv) ==
    IF argv[2] \in {S_push, S_pull}
    THEN [verb |-> argv[2], src |-> argv[5], dst |-> argv[6]]
    ELSE LET w == ShlexSplit(argv[Len(argv)]).tokens
             n == Len(w)
             verb == IF w[1] # S_sudo THEN w[1]
                     ELSE IF w[3] = S_dash_u THEN w[5] ELSE w[3]
         IN  [verb |-> verb,
              src |-> IF verb \in {S_mv, S_cp} THEN w[n - 1] ELSE w[n],
              dst |-> w[n]]

\* the invocation can go through with the files as they are: push, pull,
\* mv, cp and chmod need their source, rm -f needs nothing
CanSucceed(a, m, h) ==
    CASE a.verb = S_push -> a.src \in DOMAIN h /\ h[a.src] # Absent
                                /\ a.dst \in DOMAIN m
      [] a.verb = S_pull -> a.src \in DOMAIN m /\ m[a.src] # Absent
                                /\ a.dst \in DOMAIN h
      [] a.verb \in {S_mv, S_cp} -> a.src \in DOMAIN m /\ m[a.src] # Absent
                                        /\ a.dst \in DOMAIN m
      [] a.verb = S_chmod -> a.dst \in DOMAIN m /\ m[a.dst] # Absent
      [] a.verb = S_rm -> a.dst \in DOMAIN m
      [] OTHER -> FALSE

\* the files of the machine after an invocation that went through
MachineAfter(a, m, h) ==
    CASE a.verb = S_push -> [m EXCEPT ![a.dst] = h[a.src]]
      [] a.verb = S_mv ->
             IF a.src = a.dst THEN m
             ELSE [m EXCEPT ![a.dst] = m[a.src], ![a.src] = Absent]
      [] a.verb = S_cp -> [m EXCEPT ![a.dst] = m[a.src]]
      [] a.verb = S_rm -> [m EXCEPT ![a.dst] = Absent]
      [] OTHER -> m

\* the local files after an invocation that went through
HostAfter(a, m, h) ==
    IF a.verb = S_pull THEN [h EXCEPT ![a.dst] = m[a.src]] ELSE h

\* a call of put_file or get_file, up to its first invocation: with sudo
\* the staging path is made up here, once
XferCall(t) ==
    /\ xf[t].pc = "idle"
    /\ epc = "idle" /\ rpc = "idle" /\ Quiet
    /\ \E op \in {"put", "get"}, remote \in RemoteNames,
          suffix \in TempSuffixes :
         \E a \in PairArguments(op) :
            /\ ~a.sudo => suffix = S_suffix_a
            /\ xf' = [xf EXCEPT ![t] =
                   [pc |-> IF ~a.sudo THEN "direct"
                           ELSE IF op = "put" THEN "push" ELSE "cp",
                    op |-> op, args |-> a, remote |-> remote,
                    suffix |-> IF a.sudo THEN suffix ELSE <<>>,
                    temp |-> IF a.sudo THEN TempPath(suffix) ELSE <<>>,
                    ret |-> "none", log |-> <<>>,
                    after |-> {u \in Transfers : xf[u].pc = "done"}]]
    /\ UNCHANGED <<machine, hostfs>>
    /\ UNCHANGED <<execVars, rscVars, connVars, fileVars, discVars>>

\* the next invocation of a transfer and what the transfer does with its
\* result
XferStep(t) ==
    /\ xf[t].pc \notin {"idle", "done"}
    /\ \E x \in {xf[t]} :
       \E request \in {XferRequest(x)} :
       \E a \in {Asked(request)} :
       \E r \in StepResults(x.pc) :
         LET next == AfterStep(x.op, x.pc, r, x.args.mode)
             log == Append(x.log, [step |-> x.pc, request |-> request,
                                   result |-> r])
         IN  /\ r = "ok" => CanSucceed(a, machine, hostfs)
             /\ machine' = IF r = "ok" THEN MachineAfter(a, machine, hostfs)
                           ELSE machine
             /\ hostfs' = IF r = "ok" THEN HostAfter(a, machine, hostfs)
                          ELSE hostfs
             /\ xf' = [xf EXCEPT ![t] =
                    IF next \in {"true", "false"}
                    THEN [x EXCEPT !.pc = "done", !.ret = next, !.log = log]
                    ELSE [x EXCEPT !.pc = next, !.log = log]]
    /\ UNCHANGED <<execVars, rscVars, connVars, fileVars, discVars>>

vars == <<execVars, rscVars, hostVars>>

Init ==
    ExecInit /\ RscInit /\ ConnectInit /\ FileInit /\ DiscInit /\ PairInit

NextExec == ExecCall \/ ExecAttempt \/ ExecSleep \/ ExecExhausted

\* direct calls of the retrying executor
SpecExec == Init /\ [][NextExec]_vars

\* the same calls, where a call under way goes on: subprocess.run comes
\* back (it is given a timeout), time.sleep comes back, and the statement
\* after the loop is executed
SpecExecFair ==
    /\ SpecExec
    /\ WF_vars(ExecAttempt)
    /\ WF_vars(ExecSleep)
    /\ WF_vars(ExecExhausted)

Next ==
    RunShellCommand \/ ExecAttempt \/ ExecSleep \/ ExecExhausted \/ RscReturn

\* calls of run_shell_command
Spec == Init /\ [][Next]_vars

NextEntry ==
    \/ MakeNamesData \/ DiscList \/ DiscNext
    \/ Connect \/ ConnectInfo \/ ConnectStart

\* the two entry points that list and reach the machines: make_names_data
\* and connect
SpecEntry == Init /\ [][NextEntry]_vars

NextConnector ==
    \/ Connect \/ ConnectInfo \/ ConnectStart
    \/ RunShellCommand \/ ExecAttempt \/ ExecSleep \/ ExecExhausted
    \/ RscReturn
    \/ PutFile \/ PutDirect \/ PutPushTemp \/ PutMove \/ PutAfterMove
    \/ PutAfterCleanup \/ PutAfterChmod
    \/ GetFile \/ GetDirect \/ GetCopy \/ GetAfterCopy \/ GetAfterChmod
    \/ GetPull \/ GetRemove \/ GetAfterRemove

\* the operations of a connector bound to a host
SpecConnector == Init /\ [][NextConnector]_vars

NextTransfers == \E t \in Transfers : XferCall(t) \/ XferStep(t)

\* two transfers to or from one machine, in any interleaving of their
\* invocations
SpecTransfers == Init /\ [][NextTransfers]_vars

(***************************************************************************)
(* Properties of _execute_with_retry.                                      *)
(***************************************************************************)
Ended == epc \in {"returned", "raised"}

FailedResult(o) == o.kind = "completed" /\ o.returncode # 0

SuccessResult(o) == o.kind = "completed" /\ o.returncode = 0

Raising(o) == o.kind \in {"timeout", "error"}

\* the stderr holds, in any letter case, one of the transient keywords
TransientStderr(stderr) ==
    \E k \in NetworkErrorKeywords : Contains(k, StrLower(stderr))

AllFailed == \A i \in 1..Len(hist) : FailedResult(hist[i])

AllTransient == \A i \in 1..Len(hist) : TransientStderr(hist[i].stderr)

AllRaising == \A i \in 1..Len(hist) : Raising(hist[i])

\* C1: with max_retries = N >= 0 and a process that exits non-zero on every
\* attempt, when the call is flagged is_network_operation or every stderr
\* holds a transient keyword (in any letter case), the process is run
\* exactly N+1 times and the call returns, without raising, the result of
\* the last attempt.
C1_RetryCount ==
    (max_retries >= 0 /\ AllFailed /\ (is_network_operation \/ AllTransient))
        => /\ Len(hist) <= max_retries + 1
           /\ epc # "raised"
           /\ Ended => /\ epc = "returned"
                       /\ Len(hist) = max_retries + 1
                       /\ eret.how = "returned"
                       /\ eret.value = hist[Len(hist)]
                       /\ FailedResult(eret.value)

\* an unflagged call whose three attempts all failed with a transient stderr
\* written in mixed case has returned the third result
C1_Witness ==
    /\ epc = "returned"
    /\ ~is_network_operation
    /\ max_retries = 2
    /\ hist = <<Completed(1, <<>>, S_Network_Timeout),
                Completed(1, <<>>, S_Network_Timeout),
                Completed(1, <<>>, S_Network_Timeout)>>
    /\ eret.value = Completed(1, <<>>, S_Network_Timeout)

\* C2: with is_network_operation = FALSE, an attempt that exits non-zero
\* with a stderr holding no transient keyword is the last attempt and its
\* result is returned; when it is the first attempt the process is run
\* exactly once, whatever max_retries is.
C2_NoRetryOfDeterministicFailure ==
    ~is_network_operation =>
        \A i \in 1..Len(hist) :
            (FailedResult(hist[i]) /\ ~TransientStderr(hist[i].stderr))
                => /\ i = Len(hist)
                   /\ epc = "returned"
                   /\ eret.how = "returned"
                   /\ eret.value = hist[i]
                   /\ Len(sleeps) = i - 1

\* "command not found" on the first attempt with two retries allowed
C2_Witness ==
    /\ epc = "returned"
    /\ ~is_network_operation
    /\ max_retries = 2
    /\ hist = <<Completed(1, <<>>, S_command_not_found)>>
    /\ eret.value = Completed(1, <<>>, S_command_not_found)

\* C3: with max_retries = N >= 0, when the process call raises on every
\* attempt, it is attempted exactly N+1 times and the last exception is
\* propagated; a returned value is always the result of a real attempt
\* (never a synthesized one), so a call ends in exactly one of: returned
\* success, returned failed result, raised exception.
C3_RaiseAfterRetries ==
    max_retries >= 0 =>
        /\ AllRaising => /\ Len(hist) <= max_retries + 1
                         /\ epc # "returned"
                         /\ Ended => /\ epc = "raised"
                                     /\ Len(hist) = max_retries + 1
        /\ epc = "raised" => /\ eret.how = "raised"
                             /\ Len(hist) > 0
                             /\ eret.value = hist[Len(hist)]
                             /\ Raising(eret.value)
        /\ epc = "returned" => /\ eret.how = "returned"
                               /\ Len(hist) > 0
                               /\ eret.value = hist[Len(hist)]
                               /\ (SuccessResult(eret.value)
                                     \/ FailedResult(eret.value))
        /\ ~Ended => eret.how = "none"

\* a timeout, then another exception, with one retry allowed: raised
C3_Witness ==
    /\ epc = "raised"
    /\ max_retries = 1
    /\ hist = <<TimeoutExpired, RaisedError(S_boom)>>
    /\ eret = [how |-> "raised", value |-> RaisedError(S_boom)]

\* C4: an attempt that exits with code 0 is the last attempt of the call:
\* its result is what the call returns, and no sleep follows it (the call
\* has slept once per earlier attempt and not again).
C4_SuccessShortCircuits ==
    \A i \in 1..Len(hist) :
        SuccessResult(hist[i])
            => /\ i = Len(hist)
               /\ epc = "returned"
               /\ eret = [how |-> "returned", value |-> hist[i]]
               /\ Len(sleeps) = i - 1

\* success on the third attempt of a flagged call, after a timeout and a
\* failed result, with retries still allowed
C4_Witness ==
    /\ epc = "returned"
    /\ is_network_operation
    /\ max_retries = 2
    /\ Len(hist) = 3
    /\ hist[1] = TimeoutExpired
    /\ FailedResult(hist[2])
    /\ SuccessResult(hist[3])
    /\ eret.value = hist[3]

(***************************************************************************)
(* Properties of the argv run_shell_command hands to _execute_with_retry.  *)
(***************************************************************************)
\* run_shell_command has called _execute_with_retry with cmd
Handed == caller = "run_shell_command"

\* a Python str or a StringCommand of one bit
PlainText(c) == c.shape = "str" \/ (c.shape = "sc" /\ Len(c.bits) = 1)

\* a StringCommand of two or more bits that starts with a shell name
PrewrappedShape(c) ==
    c.shape = "sc" /\ Len(c.bits) >= 2 /\ c.bits[1] \in {S_sh, S_bash}

\* orbctl run -m <vm> [-u <user>] [-w <workdir>]
ExpectedPrefix ==
    <<S_orbctl, S_run, S_dash_m, vm_name>>
        \o (IF arguments.user # <<>> THEN <<S_dash_u, arguments.user>> ELSE <<>>)
        \o (IF arguments.workdir # <<>>
            THEN <<S_dash_w, arguments.workdir>> ELSE <<>>)

TokensOf(seq) == {seq[i] : i \in 1..Len(seq)}

ScenarioB ==
    /\ Handed
    /\ command = StrCommand(S_negation)
    /\ arguments.sudo
    /\ arguments.sudo_user = <<>>
    /\ arguments.user = <<>>
    /\ arguments.workdir = <<>>

\* the process of scenario B exited 0 with stdout "MISSING" and
\* run_shell_command returned
ScenarioBDone ==
    /\ ScenarioB
    /\ rpc = "done"
    /\ eret = [how |-> "returned", value |-> Completed(0, S_MISSING_nl, <<>>)]

OutputContains(t) ==
    \E i \in 1..Len(rret.output) : Contains(t, rret.output[i].line)

C8_PrewrappedPassThrough ==
    (Handed /\ PrewrappedShape(command))
        => cmd = ExpectedPrefix
                    \o (IF arguments.sudo
                        THEN <<S_sudo, S_dash_H>>
                                 \o (IF arguments.sudo_user # <<>>
                                     THEN <<S_dash_u, arguments.sudo_user>>
                                     ELSE <<>>)
                        ELSE <<>>)
                    \o command.bits

\* StringCommand("bash", "-c", <text with a quote>) with sudo as postgres
C8_Witness ==
    /\ Handed
    /\ command = StringCommand(<<S_bash, S_dash_c, <<"a", SQ>>>>)
    /\ arguments.sudo
    /\ arguments.sudo_user = S_postgres
    /\ cmd = <<S_orbctl, S_run, S_dash_m, S_test_vm, S_sudo, S_dash_H,
               S_dash_u, S_postgres, S_bash, S_dash_c, <<"a", SQ>>>>

\* C9: for a command given as an argument list, the argv ends with the list
\* elements as literal tokens, and what precedes them (the base prefix and
\* the sudo prefix) holds no sh -c wrapping.
C9_ListPassThrough ==
    (Handed /\ command.shape = "list")
        => LET n == Len(cmd)
               k == Len(command.bits)
           IN  /\ n >= k + 4
               /\ SubSeq(cmd, n - k + 1, n) = command.bits
               /\ S_dash_c \notin TokensOf(SubSeq(cmd, 1, n - k))

\* C10: every argv handed to the executor is [orbctl, run, -m, <vm>], then
\* "-u" <user> when user is set, then "-w" <workdir> when workdir is set,
\* then the command tokens, which start with sudo or with the shell name;
\* the flag pair of an unset option is absent.
C10_BasePrefix ==
    Handed
        => LET p == Len(ExpectedPrefix) IN
           /\ p = 4 + (IF arguments.user # <<>> THEN 2 ELSE 0)
                    + (IF arguments.workdir # <<>> THEN 2 ELSE 0)
           /\ Len(cmd) >= p + 2
           /\ SubSeq(cmd, 1, p) = ExpectedPrefix
           /\ cmd[p + 1] \in {S_sudo, S_sh, S_bash}
           /\ SubSeq(cmd, p + 1, Len(cmd))
                  = CommandArgs(command, arguments).tokens

\* user and workdir both set, as in the unit test
C10_Witness ==
    /\ Handed
    /\ command = StrCommand(S_pipe)
    /\ cmd = <<S_orbctl, S_run, S_dash_m, S_test_vm, S_dash_u, S_ubuntu,
               S_dash_w, S_workdir, S_sh, S_dash_c, S_pipe>>

(***************************************************************************)
(* Properties of run_shell_command: the flag, the missing machine name,    *)
(* the output and the exceptions.                                          *)
(***************************************************************************)
Markers ==
    { <<"c", "r", "e", "a", "t", "e">>,
      <<"d", "o", "w", "n", "l", "o", "a", "d">>,
      <<"p", "u", "l", "l">>,
      <<"f", "e", "t", "c", "h">>,
      <<"w", "g", "e", "t">>,
      <<"c", "u", "r", "l">>,
      <<"a", "p", "t">>,
      <<"y", "u", "m">>,
      <<"d", "n", "f">> }

\* C11: the executor is called with is_network_operation = TRUE exactly
\* when the lower-cased text of the original command holds one of the
\* markers create, download, pull, fetch, wget, curl, apt, yum, dnf; the
\* flag is a function of the command alone, whatever sudo, user, workdir
\* and the wrapping are.
C11_NetworkFlag ==
    Handed =>
        (is_network_operation
            <=> \E m \in Markers : Contains(m, StrLower(CommandText(command))))

\* a pre-wrapped command that names curl in capitals, run with sudo as
\* another user in a working directory, has been handed over flagged
C11_Witness ==
    /\ Handed
    /\ command = StringCommand(<<S_sh, S_dash_c, S_CURL>>)
    /\ arguments.sudo
    /\ arguments.user = S_ubuntu
    /\ arguments.workdir = S_workdir
    /\ is_network_operation

\* C12: when the host has no machine name, connect, run_shell_command,
\* put_file and get_file end at once without any subprocess having been
\* run: connect, put_file and get_file return False, run_shell_command
\* returns (False, output) whose output is made of stderr lines, one at
\* least.
C12_NoMachineName ==
    /\ (cpc # "idle" /\ cvm = <<>>)
           => /\ cpc = "done"
              /\ cret = [how |-> "returned", value |-> FALSE]
              /\ procs = <<>>
    /\ (fpc # "idle" /\ fvm = <<>>)
           => /\ fpc = "done"
              /\ fret = [how |-> "returned", value |-> FALSE]
              /\ procs = <<>>
    /\ (rcaller = "direct" /\ rpc # "idle" /\ vm_name = <<>>)
           => /\ rpc = "done"
              /\ ~rret.success
              /\ rret.output # <<>>
              /\ \A i \in 1..Len(rret.output) :
                     rret.output[i].stream = "stderr"
              /\ procs = <<>>

\* a put_file with sudo on a host without machine name has returned False
C12_Witness ==
    /\ fpc = "done"
    /\ fop = "put"
    /\ fvm = <<>>
    /\ fargs.sudo
    /\ fret = [how |-> "returned", value |-> FALSE]
    /\ procs = <<>>

\* the lines of the output that carry the given stream tag, in their order
LinesOfStream(output, stream) ==
    LET tagged == SelectSeq(output, LAMBDA l : l.stream = stream)
    IN  [i \in 1..Len(tagged) |-> tagged[i].line]

\* lines are the lines of text, none dropped, doubled or out of place:
\* put together again with line ends they give the text back
AreLinesOf(lines, text) ==
    /\ \A i \in 1..Len(lines) : \A j \in 1..Len(lines[i]) : lines[i][j] # "\n"
    /\ text = <<>> => lines = <<>>
    /\ \/ text = Join(<<"\n">>, lines)
       \/ lines # <<>> /\ text = Join(<<"\n">>, lines) \o <<"\n">>

\* C13: when the executor has returned a result, run_shell_command returns
\* success = (returncode = 0) and an output made of the lines of stdout in
\* their order, tagged stdout, followed by the lines of stderr in their
\* order, tagged stderr.
C13_OutputLines ==
    (Handed /\ rpc = "done" /\ eret.how = "returned")
        => LET outs == LinesOfStream(rret.output, "stdout")
               errs == LinesOfStream(rret.output, "stderr")
           IN  /\ rret.success <=> (eret.value.returncode = 0)
               /\ AreLinesOf(outs, eret.value.stdout)
               /\ AreLinesOf(errs, eret.value.stderr)
               /\ Len(rret.output) = Len(outs) + Len(errs)
               /\ \A i \in 1..Len(rret.output) :
                      rret.output[i].stream
                          = IF i <= Len(outs) THEN "stdout" ELSE "stderr"

\* a process that wrote two lines to stdout and one to stderr and exited
\* with 0 has given a successful result of three lines
C13_Witness ==
    /\ Handed
    /\ rpc = "done"
    /\ eret = [how |-> "returned", value |-> Completed(0, S_out_more, S_warn)]
    /\ rret.success
    /\ Len(rret.output) = 3
    /\ rret.output[3].stream = "stderr"

\* C14: run_shell_command ends by returning, whatever the executor did:
\* when the executor raised a timeout it returns (False, output) whose
\* only line is the stderr line "Command timed out", when the executor
\* raised another exception it returns (False, output) whose only line is
\* a stderr line holding the text of the exception; every call that has
\* ended has given a boolean and a sequence of lines tagged stdout or
\* stderr.
C14_NeverRaises ==
    /\ (Handed /\ rpc = "done" /\ eret.how = "raised")
           => /\ rret.success = FALSE
              /\ Len(rret.output) = 1
              /\ rret.output[1].stream = "stderr"
              /\ IF eret.value.kind = "timeout"
                 THEN rret.output[1].line = S_CommandTimedOut
                 ELSE /\ eret.value.msg # <<>>
                      /\ Contains(eret.value.msg, rret.output[1].line)
    /\ rpc = "done"
           => /\ rret.success \in BOOLEAN
              /\ \A i \in 1..Len(rret.output) :
                     rret.output[i].stream \in {"stdout", "stderr"}

\* a command whose process timed out on both attempts has returned the
\* line "Command timed out"
C14_Witness ==
    /\ Handed
    /\ rpc = "done"
    /\ eret = [how |-> "raised", value |-> TimeoutExpired]
    /\ hist = <<TimeoutExpired, TimeoutExpired>>
    /\ rret = [success |-> FALSE,
               output |-> <<OutputLine("stderr", S_CommandTimedOut)>>]

(***************************************************************************)
(* Properties of make_names_data and connect.                              *)
(***************************************************************************)
\* the listing has been read and is a list
Listed == dpc \in {"iterating", "done"} /\ vms.t = "list"

\* the field of a dict, or absent
Has(m, key) == m.t = "dict" /\ key \in DOMAIN m.fields

HasNested(m, key, inner) == Has(m, key) /\ Has(m.fields[key], inner)

\* a machine record whose fields, where present, are what the listing
\* documents: image and config are dicts of strings, the others strings
WellFormedMachine(m) ==
    /\ m.t = "dict"
    /\ \A k \in DOMAIN m.fields :
          IF k \in {"image", "config"}
          THEN /\ m.fields[k].t = "dict"
               /\ \A j \in DOMAIN m.fields[k].fields :
                      m.fields[k].fields[j].t = "str"
          ELSE m.fields[k].t = "str"

\* the filter lets the machine record through
Selected(m) ==
    hostname = <<>> \/ (Has(m, "name") /\ m.fields["name"] = JStr(hostname))

\* the elements of the listing consumed so far that the filter lets through
Kept == SelectSeq(SubSeq(vms.items, 1, di), Selected)

\* the stdout of the list invocation is a JSON array of machine records
ArrayOfRecords(stdout) ==
    /\ stdout.parses
    /\ stdout.value.t = "list"
    /\ \A i \in 1..Len(stdout.value.items) :
           stdout.value.items[i].t = "dict"

\* C15: make_names_data never raises: when the list invocation has exited
\* non-zero, or its stdout is not a JSON array of machine records, the
\* generator ends without raising, having yielded nothing.
C15_DiscoveryNeverRaises ==
    (dresult.kind = "completed"
        /\ (dresult.returncode # 0 \/ ~ArrayOfRecords(dresult.stdout)))
        => /\ dret # "raised"
           /\ yielded = <<>>

\* C16: for a listing of machine records, whichever of id, state, image,
\* image.distro, image.version, image.arch, config and
\* config.default_username are missing, make_names_data does not raise
\* and every string attribute of a yielded machine is a string, the empty
\* one (or "unknown" for the status) where its field is missing.
C16_MissingFieldsDefault ==
    (Listed /\ \A i \in 1..Len(vms.items) : WellFormedMachine(vms.items[i]))
        => /\ dret # "raised"
           /\ Len(yielded) = Len(Kept)
           /\ \A k \in 1..Len(yielded) :
                 LET d == yielded[k].data
                     m == Kept[k]
                 IN  /\ \A v \in {d.vm_name, d.vm_id, d.vm_status,
                                  d.vm_distro, d.vm_version, d.vm_arch,
                                  d.vm_username} : v.t = "str"
                     /\ ~Has(m, "name") => d.vm_name = JStr(<<>>)
                     /\ ~Has(m, "id") => d.vm_id = JStr(<<>>)
                     /\ ~Has(m, "state") => d.vm_status = JStr(S_unknown)
                     /\ ~HasNested(m, "image", "distro")
                            => d.vm_distro = JStr(<<>>)
                     /\ ~HasNested(m, "image", "version")
                            => d.vm_version = JStr(<<>>)
                     /\ ~HasNested(m, "image", "arch")
                            => d.vm_arch = JStr(<<>>)
                     /\ ~HasNested(m, "config", "default_username")
                            => d.vm_username = JStr(<<>>)

\* the listing of one machine record without any field has been gone
\* through, and has given a machine with empty attributes and the status
\* "unknown"
C16_Witness ==
    /\ dret = "exhausted"
    /\ vms = JList(<<JEmpty>>)
    /\ Len(yielded) = 1
    /\ yielded[1].data.vm_status = JStr(S_unknown)
    /\ yielded[1].data.vm_arch = JStr(<<>>)
    /\ yielded[1].data.vm_username = JStr(<<>>)

\* C17: with a name filter, every yielded machine has the name of the
\* filter, and the yielded machines are the machine records of the listing
\* that carry that name, each yielded once and in the order of the
\* listing; a machine with another name is never yielded.
C17_NameFilter ==
    (Listed /\ hostname # <<>>)
        => /\ \A k \in 1..Len(yielded) : yielded[k].name = JStr(hostname)
           /\ Len(yielded) = Len(Kept)
           /\ \A k \in 1..Len(yielded) :
                  /\ Has(Kept[k], "name")
                  /\ Kept[k].fields["name"] = yielded[k].data.vm_name
           /\ dret = "exhausted" => di = Len(vms.items)

\* the listing of a machine web and a machine db, filtered by the name
\* web, has been gone through and has given the one machine web
C17_Witness ==
    /\ hostname = S_web
    /\ dret = "exhausted"
    /\ Len(vms.items) = 2
    /\ vms.items[1].fields["name"] = JStr(S_web)
    /\ vms.items[2].fields["name"] = JStr(S_db)
    /\ Len(yielded) = 1
    /\ yielded[1].name = JStr(S_web)

\* the number of places of the sequence that hold the tag
Count(tag, groups) == Cardinality({i \in 1..Len(groups) : groups[i] = tag})

\* the value of a field of the machine record, JNull when it is missing
StateOf(m) == IF Has(m, "state") THEN m.fields["state"] ELSE JNull

ImageFieldOf(m, inner) ==
    IF HasNested(m, "image", inner) THEN m.fields["image"].fields[inner]
    ELSE JNull

\* C18: the groups of a discovered machine start with "orbstack"; the tag
\* orbstack_running (orbstack_stopped) is there exactly when the state is
\* running (stopped), the tag orbstack_arm64 (orbstack_amd64) exactly when
\* the arch is arm64 (amd64), the tag orbstack_<distro> exactly when the
\* distro is a non-empty text, each whatever the other fields are; there
\* is nothing else in the groups, so at most one run-state tag and one
\* architecture tag.
C18_GroupTags ==
    (Listed /\ \A i \in 1..Len(vms.items) : WellFormedMachine(vms.items[i]))
        => \A k \in 1..Len(yielded) :
              LET g == yielded[k].groups
                  m == Kept[k]
                  distro == ImageFieldOf(m, "distro")
                  hasDistro == distro.t = "str" /\ distro.s # <<>>
                  distroTag == S_orbstack_ \o distro.s
              IN  /\ g[1] = S_orbstack
                  /\ Count(S_orbstack, g) = 1
                  /\ Count(S_orbstack_running, g)
                         = IF StateOf(m) = JStr(S_running) THEN 1 ELSE 0
                  /\ Count(S_orbstack_stopped, g)
                         = IF StateOf(m) = JStr(S_stopped) THEN 1 ELSE 0
                  /\ Count(S_orbstack_arm64, g)
                         = IF ImageFieldOf(m, "arch") = JStr(S_arm64)
                           THEN 1 ELSE 0
                  /\ Count(S_orbstack_amd64, g)
                         = IF ImageFieldOf(m, "arch") = JStr(S_amd64)
                           THEN 1 ELSE 0
                  /\ hasDistro => Count(distroTag, g) = 1
                  /\ Len(g) = 1 + Count(S_orbstack_running, g)
                                + Count(S_orbstack_stopped, g)
                                + Count(S_orbstack_arm64, g)
                                + Count(S_orbstack_amd64, g)
                                + (IF hasDistro THEN 1 ELSE 0)
                  /\ Count(S_orbstack_running, g)
                         + Count(S_orbstack_stopped, g) <= 1
                  /\ Count(S_orbstack_arm64, g)
                         + Count(S_orbstack_amd64, g) <= 1

\* a machine without state, of arch amd64 and distro ubuntu, has been
\* yielded with the base tag, the amd64 tag and the ubuntu tag
C18_Witness ==
    /\ Len(yielded) = 1
    /\ ~Has(vms.items[1], "state")
    /\ yielded[1].groups
           = <<S_orbstack, S_orbstack_amd64, S_orbstack_ \o S_ubuntu>>

\* C19: the status attribute of every discovered machine is one of
\* running, stopped and unknown, whatever the state field of the listing
\* holds.
C19_StateEnum ==
    \A k \in 1..Len(yielded) :
        yielded[k].data.vm_status
            \in {JStr(S_running), JStr(S_stopped), JStr(S_unknown)}

\* one of the transient keywords of the executor is in the stderr
TransientFailure(o) ==
    o.kind = "completed" /\ o.returncode # 0 /\ TransientStderr(o.stderr)

\* C20: the list invocation of make_names_data and the info and start
\* invocations of connect are attempts of the retrying executor: each
\* process run is logged by the executor, and a transient failure of the
\* invocation is followed by a sleep and another attempt before
\* make_names_data or connect ends in failure.
C20_RoutedThroughExecutor ==
    /\ Len(hist) = Len(procs)
    /\ (dpc = "done" /\ TransientFailure(dresult))
           => Len(procs) > 1 /\ sleeps # <<>>
    /\ (cpc = "done" /\ TransientFailure(cresult))
           => Len(procs) > 1 /\ sleeps # <<>>

(***************************************************************************)
(* Properties of connect, put_file and get_file.                           *)
(***************************************************************************)
InfoArgv == <<S_orbctl, S_info, cvm, S_dash_f, S_json>>

StartArgv == <<S_orbctl, S_start, cvm>>

\* the info query went through and its output tells a state, or tells
\* that there is none
ReportsState(o) ==
    /\ Succeeded(o)
    /\ JsonLoads(o.stdout).ok
    /\ PyGetNested(JsonLoads(o.stdout).value, "record", "state", JNull).ok

ReportsRunning(o) ==
    /\ ReportsState(o)
    /\ PyGetNested(JsonLoads(o.stdout).value, "record", "state", JNull).value
           = JStr(S_running)

\* C21: connect with a machine name first queries the machine info; when
\* the reported record.state is running it returns True without a start
\* invocation; otherwise it issues exactly one start invocation after the
\* info query and returns True when the start succeeds; when the info query
\* or the start invocation fails, by a non-zero exit or by an exception,
\* connect returns False.
C21_ConnectProtocol ==
    (cpc = "done" /\ cvm # <<>>) =>
        /\ Len(procs) \in {1, 2}
        /\ procs[1] = InfoArgv
        /\ Len(procs) = 2 => procs[2] = StartArgv
        /\ (Len(procs) = 1 /\ ReportsState(cresult)) =>
               /\ ReportsRunning(cresult)
               /\ cret = [how |-> "returned", value |-> TRUE]
        /\ (Len(procs) = 2 /\ Succeeded(cresult)) =>
               cret = [how |-> "returned", value |-> TRUE]
        /\ (FailedResult(cresult) \/ cresult.kind = "error") =>
               cret = [how |-> "returned", value |-> FALSE]

\* a transfer with a machine name has returned
TransferDone(op, sudo) ==
    fpc = "done" /\ fop = op /\ fvm # <<>> /\ fargs.sudo = sudo

\* the words of the sh -c text of a shell step
StepWords(st) == ShlexSplit(st.request).tokens

\* the step writes sudo at the head of its text
Privileged(st) == st.via = "shell" /\ StepWords(st)[1] = S_sudo

\* what a step does: the orbctl subcommand of a process step, the program
\* of a shell step (after "sudo -H" and "-u <user>" when they are there)
Verb(st) ==
    IF st.via = "process" THEN st.request[2]
    ELSE LET w == StepWords(st)
         IN  IF w[1] # S_sudo THEN w[1]
             ELSE IF w[3] = S_dash_u THEN w[5] ELSE w[3]

Verbs == [i \in 1..Len(steps) |-> Verb(steps[i])]

Returned(value) == fret = [how |-> "returned", value |-> value]

PushTempArgv == <<S_orbctl, S_push, S_dash_m, fvm, local_file, temp_remote>>

PullTempArgv == <<S_orbctl, S_pull, S_dash_m, fvm, temp_remote, local_file>>

\* C22: put_file with sudo runs push-to-temp, privileged move, optional
\* privileged chmod in that order: a failed push returns False with no
\* move, chmod or cleanup; a failed move is followed by one removal of the
\* temp path and False, without chmod; when push and move succeed the
\* result is True whatever the chmod did, and the chmod is attempted only
\* when a mode was asked for.
C22_PutSteps ==
    TransferDone("put", TRUE) =>
        /\ Len(steps) >= 1
        /\ steps[1].request = PushTempArgv
        /\ steps[1].result # "ok" => Len(steps) = 1 /\ Returned(FALSE)
        /\ steps[1].result = "ok" =>
               /\ Len(steps) >= 2
               /\ Verb(steps[2]) = S_mv /\ Privileged(steps[2])
               /\ steps[2].result # "ok" =>
                      /\ Verbs = <<S_push, S_mv, S_rm>>
                      /\ StepWords(steps[3])[Len(StepWords(steps[3]))]
                             = temp_remote
                      /\ Returned(FALSE)
               /\ steps[2].result = "ok" =>
                      /\ Returned(TRUE)
                      /\ IF fargs.mode # <<>>
                         THEN /\ Verbs = <<S_push, S_mv, S_chmod>>
                              /\ Privileged(steps[3])
                         ELSE Verbs = <<S_push, S_mv>>

\* a push that worked, a move that failed and the cleanup after it
C22_Witness ==
    /\ TransferDone("put", TRUE)
    /\ Verbs = <<S_push, S_mv, S_rm>>
    /\ steps[2].result = "failed"
    /\ Returned(FALSE)

\* C23: get_file with sudo runs privileged copy to temp, chmod of the temp
\* copy, pull from temp, removal of the temp copy in that order: a failed
\* copy returns False with no chmod, pull or removal; a failed chmod or
\* removal does not change the result; when the pull fails the removal of
\* the temp copy is still attempted before False is returned.
C23_GetSteps ==
    TransferDone("get", TRUE) =>
        /\ Len(steps) >= 1
        /\ Verb(steps[1]) = S_cp /\ Privileged(steps[1])
        /\ steps[1].result # "ok" => Len(steps) = 1 /\ Returned(FALSE)
        /\ steps[1].result = "ok" =>
               /\ Len(steps) >= 3
               /\ Verb(steps[2]) = S_chmod
               /\ steps[3].request = PullTempArgv
               /\ Verbs = <<S_cp, S_chmod, S_pull, S_rm>>
               /\ StepWords(steps[4])[Len(StepWords(steps[4]))] = temp_remote
               /\ Returned(steps[3].result = "ok")

\* C24: without sudo, put_file makes the one invocation
\* ["orbctl","push","-m",name,local,remote] and get_file the one invocation
\* ["orbctl","pull","-m",name,remote,local]; each returns True exactly when
\* that invocation exits with code 0; no temp path, no shell command and no
\* further process is used.
C24_DirectTransfer ==
    \A op \in {"put", "get"} :
        TransferDone(op, FALSE) =>
            /\ Len(steps) = 1
            /\ steps[1].via = "process"
            /\ steps[1].request =
                   IF op = "put"
                   THEN <<S_orbctl, S_push, S_dash_m, fvm, S_local,
                          remote_filename>>
                   ELSE <<S_orbctl, S_pull, S_dash_m, fvm, remote_filename,
                          S_local>>
            /\ procs = <<steps[1].request>>
            /\ temp_remote = <<>>
            /\ rpc = "idle" /\ epc = "idle"
            /\ Returned(steps[1].result = "ok")

\* a pull without sudo that exits with a non-zero code
C24_Witness ==
    /\ TransferDone("get", FALSE)
    /\ remote_filename = S_remote_blank
    /\ steps[1].result = "failed"
    /\ Returned(FALSE)

\* the place of the "sh" of a trailing "sh", "-c", text triple, 0 when the
\* argv does not end with one
ShPlace(p) ==
    IF Len(p) >= 3 /\ p[Len(p) - 1] = S_dash_c /\ p[Len(p) - 2] = S_sh
    THEN Len(p) - 2 ELSE 0

\* the request runs something under sudo: "sudo" is an argv element, or
\* the first word of the sh -c text
Escalates(p) ==
    \/ \E i \in 1..Len(p) : p[i] = S_sudo
    \/ /\ ShPlace(p) > 0
       /\ ShlexSplit(p[Len(p)]).ok
       /\ ShlexSplit(p[Len(p)]).tokens # <<>>
       /\ ShlexSplit(p[Len(p)]).tokens[1] = S_sudo

\* C26: in every argv handed to a process by any operation, argv[0] is the
\* external CLI, and when the request escalates privileges the sudo tokens
\* are argv elements before the "sh", "-c" pair and never occur inside the
\* sh -c text.
C26_SudoOutsideText ==
    \A n \in 1..Len(procs) :
        LET p == procs[n]
        IN  /\ p[1] = S_orbctl
            /\ (Escalates(p) /\ ShPlace(p) > 0) =>
                   /\ \E i \in 1..(ShPlace(p) - 1) :
                          /\ p[i] = S_sudo
                          /\ p[i + 1] = S_dash_H
                   /\ ~Contains(S_sudo, p[Len(p)])

(***************************************************************************)
(* Backoff and termination of _execute_with_retry.                         *)
(***************************************************************************)
\* C27: the sleep before the retry that follows failed attempt k (0-based)
\* lasts base_delay * 2^k, whether the attempt gave a failed result, timed
\* out or raised another exception; sleeps occur only between two
\* attempts, so a call that made m >= 1 attempts has slept m - 1 times and
\* does not sleep after its last attempt.
C27_Backoff ==
    /\ \A i \in 1..Len(sleeps) : sleeps[i] = base_delay * 2^(i - 1)
    /\ Len(sleeps) <= Len(hist)
    /\ Len(hist) <= Len(sleeps) + 1
    /\ epc = "sleep" => Len(sleeps) = Len(hist) - 1
    /\ (Ended /\ Len(hist) >= 1) => Len(sleeps) = Len(hist) - 1

\* four attempts: an exception, a timeout and a failed result are each
\* followed by a sleep, the last attempt is not
C27_Witness ==
    /\ Ended
    /\ caller = "direct"
    /\ base_delay = 2
    /\ Len(hist) = 4
    /\ hist[1].kind = "error"
    /\ hist[2].kind = "timeout"
    /\ FailedResult(hist[3])
    /\ sleeps = <<2, 4, 8>>

\* the attempts a call may make
AttemptBound == IF max_retries < 0 THEN 0 ELSE max_retries + 1

SyntheticFailure == Completed(1, <<>>, S_MaxRetriesExceeded)

\* C28: every call of _execute_with_retry ends, after at most
\* max_retries + 1 process attempts, whatever the attempts do (success,
\* failed result, timeout, exception); with a negative max_retries no
\* process is started and a made-up failed result with exit code 1 is
\* returned.
C28_Terminates ==
    /\ [](/\ Len(hist) <= AttemptBound
          /\ (caller = "direct" /\ max_retries < 0) => procs = <<>>
          /\ (Ended /\ max_retries < 0) =>
                 /\ eret = [how |-> "returned", value |-> SyntheticFailure]
                 /\ eret.value.returncode = 1)
    /\ (epc # "idle") ~> Ended

\* a call with max_retries = -1 that has returned the made-up result
\* without an attempt
C28_Witness ==
    /\ Ended
    /\ caller = "direct"
    /\ max_retries = -1
    /\ hist = <<>>
    /\ procs = <<>>
    /\ eret.value.returncode = 1

(***************************************************************************)
(* The two shapes of a shell command.                                      *)
(***************************************************************************)
\* the argv run_shell_command hands over for StringCommand("sh", "-c", t)
\* with the machine and the arguments of the call under way
PrewrappedArgv(t) ==
    BuildCmd(vm_name, arguments,
             CommandArgs(StringCommand(<<S_sh, S_dash_c, t>>),
                         arguments).tokens)

\* argv with "-n" put in after the "-H" of its sudo prefix
WithNonInteractive(argv) ==
    LET p == Len(ExpectedPrefix)
    IN  SubSeq(argv, 1, p + 2) \o <<S_dash_n>> \o SubSeq(argv, p + 3, Len(argv))

Words(request) ==
    TokensOf(request)
        \cup (IF request[2] = S_run
              THEN TokensOf(ShlexSplit(request[Len(request)]).tokens)
              ELSE {})

\* a path under the staging directory, with the prefix of the transfers
IsStaging(w) ==
    /\ Len(w) >= Len(S_temp_prefix)
    /\ SubSeq(w, 1, Len(S_temp_prefix)) = S_temp_prefix

PrivilegedTransfer(t) == xf[t].pc # "idle" /\ xf[t].args.sudo

\* the steps that work on the staging path
StagingSteps(op) ==
    {"push", "mv", "cleanup", "cp", "pull", "rm", "rm_failed"}
        \cup (IF op = "get" THEN {"chmod"} ELSE {})

AllOk(log) == \A i \in 1..Len(log) : log[i].result = "ok"

\* put_file with sudo by transfer t, then get_file with sudo of the same
\* remote path by transfer u, every invocation of both having gone through
RoundTrip(t, u) ==
    /\ xf[t].pc = "done" /\ xf[t].op = "put" /\ xf[t].args.sudo
    /\ xf[u].pc = "done" /\ xf[u].op = "get" /\ xf[u].args.sudo
    /\ t \in xf[u].after
    /\ xf[u].remote = xf[t].remote
    /\ AllOk(xf[t].log) /\ AllOk(xf[u].log)

\* C25: when every invocation succeeds, put_file of a local file to a
\* remote path with sudo followed by get_file of that remote path with sudo
\* gives a local file with the content that was uploaded, and afterwards no
\* file made by either call is left under the staging directory /tmp of
\* the machine.
C25_RoundTrip ==
    \A t \in Transfers, u \in Transfers :
        RoundTrip(t, u) =>
            /\ xf[t].ret = "true" /\ xf[u].ret = "true"
            /\ hostfs[S_download] = "new"
            /\ hostfs[S_download] = hostfs[S_local]
            /\ machine[xf[t].remote] = hostfs[S_local]
            /\ \A p \in MachinePaths : IsStaging(p) => machine[p] = Absent

\* an upload to a path that did not exist, as postgres with a mode, and
\* the download of it, both with the same random suffix
C25_Witness ==
    /\ RoundTrip(1, 2)
    /\ xf[1].remote = S_remote_blank
    /\ xf[1].args = [sudo |-> TRUE, sudo_user |-> S_postgres, mode |-> S_644]
    /\ xf[1].suffix = xf[2].suffix
    /\ Len(xf[1].log) = 3 /\ Len(xf[2].log) = 4
    /\ hostfs[S_download] = "new"

\* C30: in every interleaving of two privileged transfers on one machine,
\* each transfer makes up its temp path once, every later step of it
\* (push, move, copy, chmod, pull, removal) refers to that path and to no
\* other staging path, and with distinct random suffixes no transfer
\* refers to, moves, pulls or removes the staged file of the other.
C30_OwnTempPath ==
    /\ [](\A t \in Transfers :
            PrivilegedTransfer(t) =>
                /\ xf[t].temp = S_temp_prefix \o xf[t].suffix
                /\ \A i \in 1..Len(xf[t].log) :
                     LET w == Words(xf[t].log[i].request)
                     IN  /\ \A p \in w : IsStaging(p) => p = xf[t].temp
                         /\ xf[t].log[i].step \in StagingSteps(xf[t].op)
                                => xf[t].temp \in w
                         /\ \A u \in Transfers \ {t} :
                              (PrivilegedTransfer(u)
                                   /\ xf[u].suffix # xf[t].suffix)
                                  => xf[u].temp \notin w)
    /\ [][\A t \in Transfers :
            PrivilegedTransfer(t) =>
                /\ xf'[t].temp = xf[t].temp
                /\ \A u \in Transfers \ {t} :
                     (PrivilegedTransfer(u) /\ xf[u].suffix # xf[t].suffix
                          /\ machine'[xf[t].temp] # machine[xf[t].temp])
                         => xf'[u] = xf[u]]_vars

\* an upload and a download of the same path with sudo and different
\* suffixes, neither started after the other had ended, both done
C30_Witness ==
    /\ xf[1].pc = "done" /\ xf[1].op = "put" /\ xf[1].args.sudo
    /\ xf[2].pc = "done" /\ xf[2].op = "get" /\ xf[2].args.sudo
    /\ xf[1].after = {} /\ xf[2].after = {}
    /\ xf[1].remote = xf[2].remote
    /\ xf[1].suffix # xf[2].suffix
    /\ xf[1].ret = "true" /\ xf[2].ret = "true"
    /\ hostfs[S_download] = "new"

=============================================================================
